---- MODULE Spec2Model ----
(***************************************************************************)
(* Model of the wplacer extension's background script                      *)
(* (src/LOAD_UNPACKED/background.js).                                      *)
(*                                                                         *)
(* Two parts share this module:                                            *)
(*   - the background service worker: the poll tick (pollForTokenRequest), *)
(*     the token messages (SEND_TOKEN, tokenPairReceived) and the wait     *)
(*     timer tokenWaitStartTime;                                           *)
(*   - the page world: the script injected by the injectPawtect message    *)
(*     (fetch wrapper, importModule, computePawtect).                      *)
(* Every await of the source is a boundary between two actions, so that    *)
(* other handlers can run while an async function is suspended.            *)
(***************************************************************************)
EXTENDS Integers, Sequences, FiniteSets, TLC

(***************************************************************************)
(* Bounds of the model.                                                    *)
(***************************************************************************)
\* Date.now() when the service worker starts (ms since the epoch, > 0).
StartTime == 100000
\* How many times the clock is advanced in one behaviour.
MaxAdvances == 3
MaxEvents == 3
MaxFirings == 3
\* How many POST /t chains of the token handlers may be pending at once.
MaxPosts == 2

(***************************************************************************)
(* Program constants.                                                      *)
(***************************************************************************)
TOKEN_WAIT_THRESHOLD_MS == 30000

\* JavaScript null, for a variable that otherwise holds a Date.now() value.
Null == -1

\* JavaScript truthiness of a value that is null or a number.
Truthy(x) == x # Null /\ x # 0

\* JavaScript ToNumber of a value that is null or a number (null -> 0).
ToNumber(x) == IF x = Null THEN 0 ELSE x

\* The clock steps the environment may take between two events, chosen so
\* that the elapsed times 15000, 15001, 29999, 30000 and 30001 occur.
ClockSteps == {1, 15000, 29999}
\* Waits longer than half and longer than the whole threshold.
LongSteps == {15001, 30001}

(***************************************************************************)
(* State.                                                                  *)
(***************************************************************************)
VARIABLES
    \* ---- background service worker ----
    now,                 \* Date.now()
    advances,            \* clock advances so far (bounded by MaxAdvances)
    tokenWaitStartTime,  \* line 7: Null or the Date.now() of the wait start
    storage,             \* chrome.storage.local: autoReload, autoClear
    activeTab,           \* the focused wplace.live tab, or NoTab
    tick,                \* the running pollForTokenRequest calls
    posts,               \* POST /t chains started by the token handlers, pending
    lastPoll,            \* history: the last successfully read poll result
    pollParity,          \* history: flips at every successfully read poll
    tokenSinceNeeded,    \* history: a token arrived since the last needed=true
    lastReset,           \* history: Date.now() at the latest reset of line 82
    openTabs,            \* the open wplace.live tabs, in chrome.tabs.query order
    effects,             \* what the latest step sent out: notifications to the
                         \* popup, the reload message, chrome.tabs.reload
    alarmListeners,      \* listeners registered on chrome.alarms.onAlarm
    scheduled,           \* names of the alarms chrome.alarms holds
    events,              \* history: runtime events delivered to this script
    fired,               \* history: the latest alarm firing and what it invoked
    \* ---- page world (one entry per wplace.live tab) ----
    localStoragePath,    \* localStorage['wplacer_pawtect_path'] (per origin)
    memChunk,            \* window.__wplacerPawtectChunk
    hooked,              \* window.__wplacerPawtectHooked
    fetchWraps,          \* wrapper layers installed around window.fetch
    xhrWraps,            \* wrapper layers installed around XHR open/send
    xhr,                 \* the XMLHttpRequest objects of the page XhrPage
    xsend,               \* the latest call of send, and what it started
    injections,          \* runs of the injected function in this page lifetime
    fcall,               \* the wrapped-fetch call in progress, and the last one
    comps,               \* the running computePawtect calls
    initCalls,           \* calls of the module initializer mod._() in this page
    finished,            \* how the latest token computation ended
    moduleSet            \* the behaviours the site's module chunk may show

alarmVars == <<alarmListeners, scheduled, events, fired>>

trackerVars == <<now, advances, tokenWaitStartTime, storage, activeTab, tick, posts,
                 lastPoll, pollParity, tokenSinceNeeded, lastReset, openTabs,
                 effects, alarmVars>>

xhrVars == <<xhr, xsend>>

pageVars == <<localStoragePath, memChunk, hooked, fetchWraps, xhrWraps,
              injections, fcall, comps, initCalls, finished, moduleSet,
              xhrVars>>

vars == <<trackerVars, pageVars>>

(***************************************************************************)
(* The environment: the open wplace.live tabs, the poll ticks that may     *)
(* overlap, the computePawtect calls that may overlap.                     *)
(***************************************************************************)
\* The tabs that can match https://wplace.live/*, in chrome.tabs.query order.
TabOrder == <<1, 2>>
\* The tab whose XMLHttpRequest objects are followed, and the objects.
XhrPage == 1
XhrObjects == {1, 2}
Pages == {TabOrder[i] : i \in 1..Len(TabOrder)}
NoTab == 0

\* The result of chrome.tabs.query({ url: "https://wplace.live/*" }) as a set.
OpenTabSet == {openTabs[i] : i \in 1..Len(openTabs)}

\* No response of the listener to a getTokenStatus request.
NoReply == [sent |-> FALSE, waiting |-> FALSE, waitTime |-> 0]

\* A step that sends nothing out.
NoEffects == [notes |-> <<>>, sentTo |-> NoTab, reloaded |-> NoTab,
              poll |-> "none", reply |-> NoReply, cleared |-> "none",
              pair |-> "none"]

\* chrome.runtime.sendMessage({ action: "tokenStatusChanged", waiting,
\* waitTime }); delivered: whether a popup received it.
StatusChanged(waiting, waitTime, delivered) ==
    [action |-> "tokenStatusChanged", waiting |-> waiting,
     waitTime |-> waitTime, status |-> "", delivered |-> delivered]

\* chrome.runtime.sendMessage({ action: "statusUpdate", status })
StatusUpdate(status, delivered) ==
    [action |-> "statusUpdate", waiting |-> FALSE, waitTime |-> Null,
     status |-> status, delivered |-> delivered]

\* A variant of the notification in which a failed delivery throws.
ThrowsWhenUndelivered(delivered) == delivered

\* .catch(() => {}) after a sendMessage of the tick: the code after the
\* notification runs whether or not it was delivered.
Continues(delivered) == TRUE

\* pollForTokenRequest calls that can be in progress at the same time.
Ticks == {1}

\* computePawtect calls that can be in progress at the same time.
Comps == {1}

(***************************************************************************)
(* URLs of module chunks: new URL(path, origin).href is the pair of the    *)
(* origin and the path.                                                    *)
(***************************************************************************)
NullUrl == <<>>
SiteOrigin == "https://wplace.live"
FallbackPath == "/_app/immutable/chunks/BdJF80pX.js"
Href(path, origin) == <<origin, path>>

\* location.origin of a tab matched by https://wplace.live/*
LocationOrigin(p) == SiteOrigin

\* The chunk candidates of discoverPawtectChunk in each tab, in enumeration
\* order (script tags, preload links, resource entries, filtered by the
\* chunk path pattern).
ChunkX == Href("/_app/immutable/chunks/X.js", SiteOrigin)
\* The chunk of an earlier deployment of the site: cached by an earlier
\* discovery, no longer among the candidates of any page.
OldChunk == Href("/_app/immutable/chunks/Old.js", SiteOrigin)
ChunkY == Href("/_app/immutable/chunks/Y.js", SiteOrigin)
chunkCandidates(p) == IF p = 1 THEN <<ChunkX, ChunkY>> ELSE <<ChunkY>>

ChunkUrls == {ChunkX, ChunkY, Href(FallbackPath, SiteOrigin)}

(***************************************************************************)
(* A computePawtect call that is not running, and no fetch call.           *)
(***************************************************************************)
FreeComp == [pc |-> "free", page |-> NoTab, cached |-> NullUrl,
             mem |-> NullUrl, cands |-> <<>>, idx |-> 0, attempts |-> <<>>,
             scanned |-> <<>>, passed |-> <<>>]

NoArgs == [ctorThrows |-> FALSE, method |-> "GET", url |-> <<>>,
           body |-> [kind |-> "none", text |-> ""], readFails |-> FALSE]

\* An XMLHttpRequest object on which open has not been called: the fields
\* __wplacer_method and __wplacer_url are undefined.  called and native
\* record the latest call of open the page made and the calls origOpen
\* received for it.
NewXhr == [method |-> "", url |-> <<>>, called |-> <<>>, native |-> <<>>]

NoBody == [kind |-> "none", text |-> <<>>, bytes |-> <<>>, off |-> 0,
           len |-> 0, readFails |-> FALSE]

\* No send yet.  method, url: the fields of the object when send was
\* called; started: the arguments of the computePawtect calls it made;
\* native: the arguments origSend received.
NoSend == [pc |-> "none", obj |-> 0, body |-> NoBody, method |-> "",
           url |-> <<>>, wraps |-> 0, started |-> <<>>, native |-> <<>>]

NoCall == [pc |-> "none", page |-> NoTab, args |-> NoArgs, wraps |-> 0,
           layer |-> 0, native |-> <<>>, started |-> <<>>]

\* No token computation has ended since the latest one started.  by: the
\* function that computed (computePawtect, seedPawtect, computePawtectForT);
\* kind: it returned or its promise rejected; token, isNull: the value it
\* returned; shape, out: what the module's computation gave; freed: the
\* calls of the module's free operation; posted: the window.postMessage
\* broadcasts; cause: why it returned null or rejected; attempts, scanned:
\* the imports and the scan of a call that found no module.
NoResult == [by |-> "none", kind |-> "none", token |-> <<>>, isNull |-> FALSE,
             shape |-> "none", out |-> <<>>, freed |-> <<>>, posted |-> <<>>,
             cause |-> "none", attempts |-> <<>>, scanned |-> <<>>]

\* The module chunk that the site serves: whether it exports the
\* initializer _ , whether the initializer resolves, whether the wasm
\* exports __wbindgen_malloc and get_pawtected_endpoint_payload, the shape
\* and the string of the output, whether __wbindgen_free throws.
GoodModule == [hasInit |-> TRUE, initOk |-> TRUE, hasMalloc |-> TRUE,
               hasCompute |-> TRUE, shape |-> "pair", out |-> <<"a">>,
               freeThrows |-> FALSE]

\* A chunk that loads but does not export the initializer.
OtherChunk == [GoodModule EXCEPT !.hasInit = FALSE]

\* importModule returned null: line 478 returns null, nothing is posted.
NoModule == [NoResult EXCEPT !.by = "computePawtect", !.kind = "returned",
                             !.isNull = TRUE, !.cause = "no module"]

\* lines 472-473 and 478: importModule returns null after the imports and
\* the scan of r, and computePawtect returns null.
Unloaded(r) ==
    [NoModule EXCEPT !.attempts = r.attempts, !.scanned = r.scanned]

\* line 478: the module has no function _ : computePawtect returns null.
NoInitializer == [NoModule EXCEPT !.cause = "no initializer"]

\* An exception left the async function: its promise rejects.
Rejected(by, cause) ==
    [NoResult EXCEPT !.by = by, !.kind = "rejected", !.cause = cause]

\* A navigation or reload of tab p tears its window down: the globals of the
\* page, the installed wrappers and every async function running in it.
\* localStorage survives.
Teardown(p) ==
    /\ memChunk' = [memChunk EXCEPT ![p] = NullUrl]
    /\ hooked' = [hooked EXCEPT ![p] = FALSE]
    /\ fetchWraps' = [fetchWraps EXCEPT ![p] = 0]
    /\ xhrWraps' = [xhrWraps EXCEPT ![p] = 0]
    /\ injections' = [injections EXCEPT ![p] = 0]
    /\ initCalls' = [initCalls EXCEPT ![p] = <<>>]
    /\ comps' = [c \in Comps |-> IF comps[c].page = p THEN FreeComp ELSE comps[c]]
    /\ fcall' = IF fcall.pc = "reading" /\ fcall.page = p THEN NoCall ELSE fcall
    /\ xhr' = IF p = XhrPage THEN [o \in XhrObjects |-> NewXhr] ELSE xhr
    /\ xsend' = IF p = XhrPage THEN NoSend ELSE xsend

(***************************************************************************)
(* Background service worker: settings.                                    *)
(***************************************************************************)
\* result.autoReload !== undefined ? result.autoReload : true
SettingValue(stored) == IF stored = "undefined" THEN TRUE ELSE stored = "true"

\* getSettings, lines 12-24: the settings as read from chrome.storage.local.
\* (The globals autoReloadEnabled and autoClearEnabled that it also assigns
\* are only ever logged, and are left out.)
getSettings == [autoReload |-> SettingValue(storage.autoReload),
                autoClear |-> SettingValue(storage.autoClear)]

\* The user changes a setting in the popup, which writes chrome.storage.local.
SettingsChanged(key, value) ==
    /\ storage[key] # value
    /\ storage' = [storage EXCEPT ![key] = value]
    /\ effects' = NoEffects
    /\ UNCHANGED <<now, advances, alarmVars, lastReset, tokenWaitStartTime, activeTab, tick, posts, lastPoll,
                   pollParity, tokenSinceNeeded, openTabs, pageVars>>

\* Time passes between two events.
AdvanceClock(d) ==
    /\ advances < MaxAdvances
    /\ advances' = advances + 1
    /\ now' = now + d
    /\ effects' = NoEffects
    /\ UNCHANGED <<alarmVars, lastReset, tokenWaitStartTime, storage, activeTab, tick, posts, lastPoll, pollParity,
                   tokenSinceNeeded, openTabs, pageVars>>

(***************************************************************************)
(* Background service worker: pollForTokenRequest.                         *)
(* pc of a tick: idle, settings (await line 36), url (await line 38),      *)
(* fetch (awaits lines 39 and 52), clear1 (await line 81), reload_query    *)
(* (await line 125), reload_send (await line 136), reload_fb (await line   *)
(* 148), clear2 (await line 94).                                           *)
(***************************************************************************)
IdleTick == [pc |-> "idle", autoReload |-> TRUE, autoClear |-> TRUE,
             left |-> {}, target |-> NoTab, clears |-> 0]

\* A variant of the overdue condition that also fires at the threshold.
OverdueFromThreshold(waitTime, autoClear) ==
    waitTime >= TOKEN_WAIT_THRESHOLD_MS /\ autoClear

\* line 79: the overdue condition
Overdue(waitTime, autoClear) ==
    waitTime > TOKEN_WAIT_THRESHOLD_MS /\ autoClear

\* line 92: the condition of the clear after the reload
ClearAfterReload(autoClear, startTime) ==
    autoClear /\ 2 * (now - ToNumber(startTime)) > TOKEN_WAIT_THRESHOLD_MS

\* A variant of the tick that calls initiateReload whatever the setting.
ReloadAlways(t) == [tick[t] EXCEPT !.pc = "reload_query"]

\* lines 86-98: the tick after the wait timer has been handled
AfterWaitCheck(t) ==
    IF tick[t].autoReload
    THEN [tick[t] EXCEPT !.pc = "reload_query"]
    ELSE IdleTick

\* lines 120-123: the notification initiateReload sends as it is called
ReloadNotes(t, d) ==
    IF tick[t].autoReload
    THEN <<StatusUpdate("Reloading page...", d)>>
    ELSE <<>>

\* lines 91-95: the tick after initiateReload has returned; startTime is the
\* value of tokenWaitStartTime at that moment
AfterReload(t, startTime) ==
    IF ClearAfterReload(tick[t].autoClear, startTime)
    THEN [tick[t] EXCEPT !.pc = "clear2", !.left = OpenTabSet,
                         !.target = NoTab, !.clears = @ + 1]
    ELSE IdleTick

\* The poll alarm fires and its listener calls pollForTokenRequest.
AlarmFires(t) ==
    /\ tick[t].pc = "idle"
    /\ \A u \in Ticks : u < t => tick[u].pc # "idle"
    /\ tick' = [tick EXCEPT ![t] = [IdleTick EXCEPT !.pc = "settings"]]
    /\ effects' = NoEffects
    /\ UNCHANGED <<now, advances, alarmVars, lastReset, tokenWaitStartTime, storage, activeTab, posts, lastPoll,
                   pollParity, tokenSinceNeeded, openTabs, pageVars>>

\* line 36: const settings = await getSettings()
TickGetSettings(t) ==
    /\ tick[t].pc = "settings"
    /\ tick' = [tick EXCEPT ![t] = [@ EXCEPT !.pc = "url",
                    !.autoReload = getSettings.autoReload,
                    !.autoClear = getSettings.autoClear]]
    /\ effects' = NoEffects
    /\ UNCHANGED <<now, advances, alarmVars, lastReset, tokenWaitStartTime, storage, activeTab,
                   posts, lastPoll, pollParity, tokenSinceNeeded, openTabs,
                   pageVars>>

\* line 38: const url = await getServerUrl("/token-needed")
TickGetServerUrl(t) ==
    /\ tick[t].pc = "url"
    /\ tick' = [tick EXCEPT ![t] = [@ EXCEPT !.pc = "fetch"]]
    /\ effects' = NoEffects
    /\ UNCHANGED <<now, advances, alarmVars, lastReset, tokenWaitStartTime, storage, activeTab,
                   posts, lastPoll, pollParity, tokenSinceNeeded, openTabs,
                   pageVars>>

PollOutcomes == {"neterror", "notok", "badjson", "needed", "notneeded"}

\* A variant of the skip test without the check of response.ok.
PollSkippedOnException(outcome) == outcome \in {"neterror", "badjson"}

\* lines 39-50 and 112-114: the fetch or response.json() throws, or the
\* status is not OK: the tick returns.
PollSkipped(outcome) == outcome \in {"neterror", "notok", "badjson"}

\* line 53: if (data.needed)
PollNeeded(outcome) == outcome = "needed"

\* The notifications of a step and what follows them in the tick: all of
\* them and the continuation, or, if a notification of the tick could throw,
\* the first one and the end of the tick (catch of line 112).
Notified(t, notes, d, continuation) ==
    IF Continues(d)
    THEN /\ effects' = [NoEffects EXCEPT !.notes = notes, !.poll = "needed"]
         /\ tick' = [tick EXCEPT ![t] = continuation]
    ELSE /\ effects' = [NoEffects EXCEPT !.notes = <<notes[1]>>,
                                         !.poll = "needed"]
         /\ tick' = [tick EXCEPT ![t] = IdleTick]

\* lines 39-111: the server answers (or not) and the tick runs up to its next
\* await.  d: whether the notifications sent in this step are delivered.
PollResponds(t, outcome, d) ==
    /\ tick[t].pc = "fetch"
    /\ IF PollSkipped(outcome)
       THEN \* lines 47-50, 112-114
            /\ d
            /\ tick' = [tick EXCEPT ![t] = IdleTick]
            /\ effects' = [NoEffects EXCEPT !.poll = outcome]
            /\ UNCHANGED <<tokenWaitStartTime, lastPoll, pollParity,
                           tokenSinceNeeded>>
       ELSE IF ~PollNeeded(outcome)
       THEN \* lines 99-111
            /\ lastPoll' = "notneeded"
            /\ pollParity' = ~pollParity
            /\ UNCHANGED tokenSinceNeeded
            /\ IF Truthy(tokenWaitStartTime)
               THEN /\ tokenWaitStartTime' = Null
                    /\ tick' = [tick EXCEPT ![t] = IdleTick]
                    /\ effects' = [NoEffects EXCEPT !.poll = outcome,
                          !.notes = <<StatusChanged(FALSE, Null, d)>>]
               ELSE /\ d
                    /\ tick' = [tick EXCEPT ![t] = IdleTick]
                    /\ effects' = [NoEffects EXCEPT !.poll = outcome]
                    /\ UNCHANGED tokenWaitStartTime
       ELSE /\ lastPoll' = "needed"
            /\ pollParity' = ~pollParity
            /\ tokenSinceNeeded' = FALSE
            /\ IF ~Truthy(tokenWaitStartTime)
               THEN \* lines 57-66
                    /\ tokenWaitStartTime' = now
                    /\ Notified(t, <<StatusChanged(TRUE, 0, d)>>
                                   \o ReloadNotes(t, d), d, AfterWaitCheck(t))
               ELSE \* lines 67-84
                    /\ UNCHANGED tokenWaitStartTime
                    /\ LET waitTime == now - tokenWaitStartTime
                           note == StatusChanged(TRUE,
                                                 waitTime \div 1000, d)
                       IN IF Overdue(waitTime, tick[t].autoClear)
                          THEN Notified(t, <<note>>, d,
                                   [tick[t] EXCEPT !.pc = "clear1",
                                                   !.left = OpenTabSet,
                                                   !.clears = @ + 1])
                          ELSE Notified(t, <<note>> \o ReloadNotes(t, d), d,
                                        AfterWaitCheck(t))
    /\ UNCHANGED <<now, advances, alarmVars, lastReset, storage, activeTab, posts, openTabs,
                   pageVars>>

\* The step of a tick that follows the resolution of clearPawtectCache:
\* line 82 and the call of initiateReload after the overdue clear, the end
\* of the tick after the second clear.
\* Variant: the timer keeps its value after the overdue clear.
TimerKept(startTime) == startTime

\* Line 82: tokenWaitStartTime = Date.now() after the awaited clear.
TimerAfterClear(startTime) == now

\* lines 223 and 230: the value the promise of clearPawtectCache resolves
\* with, after the last tab (reloaded) or with no tab (NoTab).
Resolution(reloaded) == IF reloaded = NoTab THEN "false" ELSE "true"

ClearResolved(t, d, reloaded) ==
    IF tick[t].pc = "clear1"
    THEN /\ tokenWaitStartTime' = TimerAfterClear(tokenWaitStartTime)
         /\ lastReset' = now
         /\ tick' = [tick EXCEPT ![t] =
                [AfterWaitCheck(t) EXCEPT !.left = {}]]
         /\ effects' = [NoEffects EXCEPT !.notes = ReloadNotes(t, d),
                                         !.reloaded = reloaded,
                                         !.cleared = Resolution(reloaded)]
         /\ ReloadNotes(t, d) = <<>> => d
    ELSE /\ d
         /\ tick' = [tick EXCEPT ![t] = IdleTick]
         /\ effects' = [NoEffects EXCEPT !.reloaded = reloaded,
                                         !.cleared = Resolution(reloaded)]
         /\ UNCHANGED <<tokenWaitStartTime, lastReset>>

\* lines 206-216: chrome.scripting.executeScript in one tab.  When the
\* function ran (results[0].result === true) the cached path is removed
\* from localStorage; when the injection failed (results undefined, line
\* 217 logs "failed") nothing is removed.
AfterInjection(ok) == IF ok THEN NullUrl ELSE localStoragePath

\* clearPawtectCache, lines 199-234, for one tab of the query result: the
\* injected function removes the cached paths if the injection succeeds
\* (ok), the callback reloads the tab either way (line 219) and counts it;
\* after the last tab the promise resolves and the tick goes on (line 82
\* after the overdue clear, the end of the tick after the second clear).
ClearTab(t, p, d, ok) ==
    /\ tick[t].pc \in {"clear1", "clear2"}
    /\ p \in tick[t].left
    /\ localStoragePath' = AfterInjection(ok)
    /\ Teardown(p)
    /\ IF tick[t].left = {p}
       THEN ClearResolved(t, d, p)
       ELSE /\ d
            /\ tick' = [tick EXCEPT ![t] = [@ EXCEPT !.left = @ \ {p}]]
            /\ effects' = [NoEffects EXCEPT !.reloaded = p]
            /\ UNCHANGED <<tokenWaitStartTime, lastReset>>
    /\ UNCHANGED <<now, advances, alarmVars, storage, activeTab, posts, lastPoll,
                   pollParity, tokenSinceNeeded, openTabs, finished,
                   moduleSet>>

\* clearPawtectCache, lines 225-229: no tab is open, the promise resolves
\* with false in the callback of the query.
ClearNoTabs(t, d) ==
    /\ tick[t].pc \in {"clear1", "clear2"}
    /\ tick[t].left = {}
    /\ ClearResolved(t, d, NoTab)
    /\ UNCHANGED <<now, advances, alarmVars, storage, activeTab, posts, lastPoll,
                   pollParity, tokenSinceNeeded, openTabs, pageVars>>

(***************************************************************************)
(* Background service worker: initiateReload, lines 117-165.               *)
(***************************************************************************)
\* A variant of the choice that takes the first tab.
FirstTab(tabs) == tabs[1]

\* line 134: tabs.find(t => t.active) || tabs[0]
TargetTab(tabs) ==
    IF \E i \in 1..Len(tabs) : tabs[i] = activeTab
    THEN activeTab
    ELSE tabs[1]

\* lines 125-136: const tabs = await chrome.tabs.query(...) resolves; with
\* no tab the function returns (line 132), else the message is sent.
ReloadQuery(t, d) ==
    /\ tick[t].pc = "reload_query"
    /\ IF Len(openTabs) = 0
       THEN /\ tick' = [tick EXCEPT ![t] = AfterReload(t, tokenWaitStartTime)]
            /\ effects' = [NoEffects EXCEPT !.notes =
                  <<StatusUpdate("No wplace.live tabs found to reload.", d)>>]
       ELSE /\ d
            /\ tick' = [tick EXCEPT ![t] =
                  [@ EXCEPT !.pc = "reload_send",
                            !.target = TargetTab(openTabs)]]
            /\ effects' = [NoEffects EXCEPT !.sentTo = TargetTab(openTabs)]
    /\ UNCHANGED <<now, advances, alarmVars, lastReset, tokenWaitStartTime, storage, activeTab, posts, lastPoll,
                   pollParity, tokenSinceNeeded, openTabs, pageVars>>

\* line 136: await chrome.tabs.sendMessage(targetTab.id, reloadForToken).
\* When it is delivered the page reloads itself and initiateReload returns
\* (lines 139-144 schedule the notification); when it fails the catch block
\* of line 145 runs up to its await.
ReloadSend(t, delivered, d) ==
    /\ tick[t].pc = "reload_send"
    /\ IF delivered
       THEN /\ Teardown(tick[t].target)
            /\ tick' = [tick EXCEPT ![t] = AfterReload(t, tokenWaitStartTime)]
            /\ effects' = [NoEffects EXCEPT !.notes =
                  <<StatusUpdate("Page reloaded successfully.", d)>>]
       ELSE /\ d
            /\ tick' = [tick EXCEPT ![t] = [@ EXCEPT !.pc = "reload_fb"]]
            /\ effects' = NoEffects
            /\ UNCHANGED <<memChunk, hooked, fetchWraps, xhrWraps, xhrVars, injections,
                           comps, fcall, initCalls>>
    /\ UNCHANGED <<now, advances, alarmVars, lastReset, tokenWaitStartTime, storage, activeTab, posts, lastPoll,
                   pollParity, tokenSinceNeeded, openTabs, localStoragePath,
                   finished, moduleSet>>

\* The tab that the catch block reloads.
FallbackTarget(t) == openTabs[1]

\* lines 148-157: the fallback reloads the first tab of a second query.
ReloadFallback(t, d) ==
    /\ tick[t].pc = "reload_fb"
    /\ Teardown(FallbackTarget(t))
    /\ tick' = [tick EXCEPT ![t] = AfterReload(t, tokenWaitStartTime)]
    /\ effects' = [NoEffects EXCEPT
           !.notes = <<StatusUpdate("Page reloaded successfully.", d)>>,
           !.reloaded = FallbackTarget(t)]
    /\ UNCHANGED <<now, advances, alarmVars, lastReset, tokenWaitStartTime, storage, activeTab, posts, lastPoll,
                   pollParity, tokenSinceNeeded, openTabs, localStoragePath,
                   finished, moduleSet>>

\* The user focuses another tab, or a window that is not wplace.live.
FocusTab(p) ==
    /\ activeTab # p
    /\ p \in OpenTabSet \cup {NoTab}
    /\ activeTab' = p
    /\ effects' = NoEffects
    /\ UNCHANGED <<now, advances, alarmVars, lastReset, tokenWaitStartTime, storage, tick, posts, lastPoll,
                   pollParity, tokenSinceNeeded, openTabs, pageVars>>

(***************************************************************************)
(* Background service worker: the token messages, lines 696-743.           *)
(***************************************************************************)
\* The requests that reach the two token branches of the listener.
TokenRequests ==
    { r \in [type : {"SEND_TOKEN", "other"},
             action : {"tokenPairReceived", "other"},
             turnstile : BOOLEAN, pawtect : BOOLEAN] :
        r.type = "SEND_TOKEN" \/ r.action = "tokenPairReceived" }

\* The SEND_TOKEN messages that are no tokenPairReceived messages.
SendTokenRequests == { r \in TokenRequests : r.action = "other" }

\* line 696
IsSendToken(r) == r.type = "SEND_TOKEN"
\* lines 716-718
IsTokenPair(r) == r.action = "tokenPairReceived" /\ r.turnstile /\ r.pawtect

\* A variant of the reset that leaves the timer as it is.
KeepWaitTimer(startTime) == startTime

\* lines 698-701 and 721-724: if (tokenWaitStartTime) tokenWaitStartTime = null
ResetWaitTimer(startTime) == IF Truthy(startTime) THEN Null ELSE startTime

\* How many POST /t chains the listener starts for a request.
PostsStarted(r) ==
    (IF IsSendToken(r) THEN 1 ELSE 0) + (IF IsTokenPair(r) THEN 1 ELSE 0)

\* A variant of the response that reports success for every pair message.
PairReplyAlways(r) ==
    IF r.action = "tokenPairReceived" THEN "success" ELSE "none"

\* lines 716-741: the sendResponse of the tokenPairReceived branch,
\* { success: true } with both tokens truthy and { success: false, ... }
\* otherwise; no response for another message.
PairReply(r) ==
    IF r.action # "tokenPairReceived" THEN "none"
    ELSE IF r.turnstile /\ r.pawtect THEN "success" ELSE "failure"

\* The listener of chrome.runtime.onMessage for a token request.
OnTokenMessage(r) ==
    /\ posts + PostsStarted(r) <= MaxPosts
    /\ tokenWaitStartTime' =
           IF IsSendToken(r) \/ IsTokenPair(r)
           THEN ResetWaitTimer(tokenWaitStartTime)
           ELSE tokenWaitStartTime
    /\ posts' = posts + PostsStarted(r)
    /\ tokenSinceNeeded' =
           (tokenSinceNeeded \/ IsSendToken(r) \/ IsTokenPair(r))
    /\ effects' = [NoEffects EXCEPT !.pair = PairReply(r)]
    /\ UNCHANGED <<now, advances, alarmVars, lastReset, storage, activeTab, tick, lastPoll,
                   pollParity, openTabs, pageVars>>

\* A variant of the response that reports the wait in milliseconds.
StatusReplyMillis(startTime) ==
    IF Truthy(startTime)
    THEN [sent |-> TRUE, waiting |-> TRUE, waitTime |-> now - startTime]
    ELSE [sent |-> TRUE, waiting |-> FALSE, waitTime |-> 0]

\* lines 317-323: the response to getTokenStatus
StatusReply(startTime) ==
    IF Truthy(startTime)
    THEN [sent |-> TRUE, waiting |-> TRUE,
          waitTime |-> (now - startTime) \div 1000]
    ELSE [sent |-> TRUE, waiting |-> FALSE, waitTime |-> 0]

\* lines 316-325: the listener answers a getTokenStatus request.
GetTokenStatus ==
    /\ effects' = [NoEffects EXCEPT !.reply = StatusReply(tokenWaitStartTime)]
    /\ UNCHANGED <<now, advances, alarmVars, lastReset, tokenWaitStartTime, storage, activeTab, tick,
                   posts, lastPoll, pollParity, tokenSinceNeeded, openTabs,
                   pageVars>>

\* lines 703-714 and 726-737: getServerUrl("/t").then(url => { fetch(...) }).
\* The POST is sent when the settings have been read; whether it succeeds is
\* observed by nobody.
PostToServer(ok) ==
    /\ posts > 0
    /\ posts' = posts - 1
    /\ effects' = NoEffects
    /\ UNCHANGED <<now, advances, alarmVars, lastReset, tokenWaitStartTime, storage, activeTab, tick,
                   lastPoll, pollParity, tokenSinceNeeded, openTabs, pageVars>>

(***************************************************************************)
(* Initial states.                                                         *)
(***************************************************************************)
StoredValues == {"undefined", "true", "false"}

\* The service worker has just started: lines 7-9.
TrackerStart ==
    /\ now = StartTime
    /\ advances = 0
    /\ tokenWaitStartTime = Null
    /\ tick = [t \in Ticks |-> IdleTick]
    /\ posts = 0
    /\ lastPoll = "none"
    /\ pollParity = FALSE
    /\ tokenSinceNeeded = FALSE
    /\ lastReset = Null
    /\ effects = NoEffects

\* The tabs have just loaded: nothing is installed and nothing runs.
(***************************************************************************)
(* Alarms: initializeAlarms (lines 755-779) and the runtime events that    *)
(* call it (lines 781-789).                                                *)
(***************************************************************************)
POLL_ALARM_NAME == "wplacer-poll"
COOKIE_ALARM_NAME == "wplacer-cookie"
AlarmNames == {POLL_ALARM_NAME, COOKIE_ALARM_NAME}
RuntimeEvents == {"startup", "installed"}

NoFiring == [name |-> "", polls |-> 0, cookies |-> 0, count |-> 0]

\* The background script has been evaluated and no runtime event has been
\* delivered: nothing is registered on onAlarm at top level.
AlarmsStart ==
    /\ alarmListeners = 0
    /\ scheduled = {}
    /\ events = <<>>
    /\ fired = NoFiring

\* The state after one startup event.
AlarmsInitialized ==
    /\ alarmListeners = 1
    /\ scheduled = AlarmNames
    /\ events = <<"startup">>
    /\ fired = NoFiring

\* Lines 755-779.  clearAll and the two create calls leave exactly the two
\* alarms scheduled; addListener is given a new function object at every
\* call, so one more listener is registered each time.
initializeAlarms ==
    /\ scheduled' = AlarmNames
    /\ alarmListeners' = alarmListeners + 1

\* Lines 781-789: onStartup and onInstalled both call initializeAlarms.
RuntimeEvent(e) ==
    /\ Len(events) < MaxEvents
    /\ events' = Append(events, e)
    /\ initializeAlarms
    /\ UNCHANGED fired
    /\ UNCHANGED <<now, advances, tokenWaitStartTime, storage, activeTab, tick,
                   posts, lastPoll, pollParity, tokenSinceNeeded, lastReset,
                   openTabs, effects, pageVars>>

\* Lines 770-777: a firing of a scheduled alarm is delivered to every
\* registered listener; each listener calls pollForTokenRequest for the poll
\* alarm and sendCookie for the cookie alarm.
AlarmRings(name) ==
    /\ name \in scheduled
    /\ fired.count < MaxFirings
    /\ fired' = [name |-> name,
                 polls |-> IF name = POLL_ALARM_NAME
                           THEN alarmListeners ELSE 0,
                 cookies |-> IF name = COOKIE_ALARM_NAME
                             THEN alarmListeners ELSE 0,
                 count |-> fired.count + 1]
    /\ UNCHANGED <<alarmListeners, scheduled, events>>
    /\ UNCHANGED <<now, advances, tokenWaitStartTime, storage, activeTab, tick,
                   posts, lastPoll, pollParity, tokenSinceNeeded, lastReset,
                   openTabs, effects, pageVars>>

PagesStart ==
    /\ memChunk = [p \in Pages |-> NullUrl]
    /\ hooked = [p \in Pages |-> FALSE]
    /\ fetchWraps = [p \in Pages |-> 0]
    /\ xhrWraps = [p \in Pages |-> 0]
    /\ injections = [p \in Pages |-> 0]
    /\ fcall = NoCall
    /\ comps = [c \in Comps |-> FreeComp]
    /\ initCalls = [p \in Pages |-> <<>>]
    /\ finished = NoResult
    /\ xhr = [o \in XhrObjects |-> NewXhr]
    /\ xsend = NoSend

\* The tracker with any stored settings and any focused tab; the pages hold
\* the cached path of an earlier discovery.  The injections of the cache
\* clear succeed here; SpecClear follows the ones that fail.  Tokens
\* arrive in SEND_TOKEN messages here; SpecStatus and SpecOverdue follow
\* the tokenPairReceived messages as well.
InitTracker ==
    /\ TrackerStart
    /\ AlarmsInitialized
    /\ storage \in [autoReload : StoredValues, autoClear : StoredValues]
    /\ openTabs \in {<<>>, TabOrder}
    /\ activeTab \in OpenTabSet \cup {NoTab}
    /\ PagesStart
    /\ moduleSet = {GoodModule}
    /\ localStoragePath = ChunkX

NextTracker ==
    \/ \E d \in ClockSteps : AdvanceClock(d)
    \/ \E k \in {"autoReload", "autoClear"}, v \in {"true", "false"} :
           SettingsChanged(k, v)
    \/ \E p \in Pages \cup {NoTab} : FocusTab(p)
    \/ \E t \in Ticks : AlarmFires(t)
    \/ \E t \in Ticks : TickGetSettings(t)
    \/ \E t \in Ticks : TickGetServerUrl(t)
    \/ \E t \in Ticks, o \in PollOutcomes, d \in BOOLEAN :
           PollResponds(t, o, d)
    \/ \E t \in Ticks, p \in Pages, d \in BOOLEAN : ClearTab(t, p, d, TRUE)
    \/ \E t \in Ticks, d \in BOOLEAN : ClearNoTabs(t, d)
    \/ \E t \in Ticks, d \in BOOLEAN : ReloadQuery(t, d)
    \/ \E t \in Ticks, delivered \in BOOLEAN, d \in BOOLEAN :
           ReloadSend(t, delivered, d)
    \/ \E t \in Ticks, d \in BOOLEAN : ReloadFallback(t, d)
    \/ \E r \in SendTokenRequests : OnTokenMessage(r)
    \/ \E ok \in BOOLEAN : PostToServer(ok)

SpecTracker == InitTracker /\ [][NextTracker]_vars

(***************************************************************************)
(* The status query: the tracker without open tabs and without auto-reload *)
(* (the ticks set, reset and clear the timer, and clear the cache of no    *)
(* tab), the token messages, and the popup that asks for the status.       *)
(***************************************************************************)
InitStatus ==
    /\ TrackerStart
    /\ AlarmsInitialized
    /\ storage \in [autoReload : {"false"}, autoClear : StoredValues]
    /\ openTabs = <<>>
    /\ activeTab = NoTab
    /\ PagesStart
    /\ moduleSet = {GoodModule}
    /\ localStoragePath = NullUrl

NextStatus ==
    \/ \E d \in ClockSteps : AdvanceClock(d)
    \/ \E t \in Ticks : AlarmFires(t)
    \/ \E t \in Ticks : TickGetSettings(t)
    \/ \E t \in Ticks : TickGetServerUrl(t)
    \/ \E t \in Ticks, o \in PollOutcomes, d \in BOOLEAN :
           PollResponds(t, o, d)
    \/ \E t \in Ticks, d \in BOOLEAN : ClearNoTabs(t, d)
    \/ \E r \in TokenRequests : OnTokenMessage(r)
    \/ \E ok \in BOOLEAN : PostToServer(ok)
    \/ GetTokenStatus

SpecStatus == InitStatus /\ [][NextStatus]_vars

(***************************************************************************)
(* The poll tick over waits long enough for the overdue branch of lines    *)
(* 79-95 to be taken more than once, with auto-clear enabled.              *)
(***************************************************************************)
InitOverdue ==
    /\ TrackerStart
    /\ AlarmsInitialized
    /\ storage \in [autoReload : {"true", "false"}, autoClear : {"true"}]
    /\ openTabs \in {<<>>, TabOrder}
    /\ activeTab \in OpenTabSet \cup {NoTab}
    /\ PagesStart
    /\ moduleSet = {GoodModule}
    /\ localStoragePath = ChunkX

NextOverdue ==
    \/ \E d \in LongSteps : AdvanceClock(d)
    \/ \E t \in Ticks : AlarmFires(t)
    \/ \E t \in Ticks : TickGetSettings(t)
    \/ \E t \in Ticks : TickGetServerUrl(t)
    \/ \E t \in Ticks, o \in PollOutcomes, d \in BOOLEAN :
           PollResponds(t, o, d)
    \/ \E t \in Ticks, p \in Pages, d \in BOOLEAN : ClearTab(t, p, d, TRUE)
    \/ \E t \in Ticks, d \in BOOLEAN : ClearNoTabs(t, d)
    \/ \E t \in Ticks, d \in BOOLEAN : ReloadQuery(t, d)
    \/ \E t \in Ticks, delivered \in BOOLEAN, d \in BOOLEAN :
           ReloadSend(t, delivered, d)
    \/ \E t \in Ticks, d \in BOOLEAN : ReloadFallback(t, d)
    \/ \E r \in TokenRequests : OnTokenMessage(r)
    \/ \E ok \in BOOLEAN : PostToServer(ok)

SpecOverdue == InitOverdue /\ [][NextOverdue]_vars

(***************************************************************************)
(* One execution of the background script: runtime events and firings of   *)
(* the alarms.                                                             *)
(***************************************************************************)
InitAlarm ==
    /\ TrackerStart
    /\ AlarmsStart
    /\ storage = [autoReload |-> "undefined", autoClear |-> "undefined"]
    /\ openTabs = <<>>
    /\ activeTab = NoTab
    /\ PagesStart
    /\ moduleSet = {GoodModule}
    /\ localStoragePath = NullUrl

NextAlarm ==
    \/ \E e \in RuntimeEvents : RuntimeEvent(e)
    \/ \E name \in AlarmNames : AlarmRings(name)

SpecAlarm == InitAlarm /\ [][NextAlarm]_vars

(***************************************************************************)
(* Page world: the script injected by the injectPawtect message, lines     *)
(* 339-577.                                                                *)
(***************************************************************************)
\* How many times the injected function runs in one page lifetime.
MaxInjections == 2

\* A variant of the guard that never sees the flag.
HookNeverSeen(p) == FALSE

\* line 347: if (window.__wplacerPawtectHooked) return
HookInstalled(p) == hooked[p]

\* The listener runs the injected function in the main world of tab p: lines
\* 347-348, then the wrappers of lines 511-567 are installed.
InjectPawtect(p) ==
    /\ injections[p] < MaxInjections
    /\ injections' = [injections EXCEPT ![p] = @ + 1]
    /\ IF HookInstalled(p)
       THEN UNCHANGED <<hooked, fetchWraps, xhrWraps>>
       ELSE /\ hooked' = [hooked EXCEPT ![p] = TRUE]
            /\ fetchWraps' = [fetchWraps EXCEPT ![p] = @ + 1]
            /\ xhrWraps' = [xhrWraps EXCEPT ![p] = @ + 1]
    /\ UNCHANGED <<trackerVars, localStoragePath, memChunk, fcall, comps,
                   initCalls, finished, moduleSet, xhrVars>>

\* The user reloads tab p, or the page navigates.
PageReload(p) ==
    /\ Teardown(p)
    /\ UNCHANGED <<trackerVars, localStoragePath, finished, moduleSet>>

\* The user clears the site data of wplace.live.
SiteDataCleared ==
    /\ localStoragePath # NullUrl
    /\ localStoragePath' = NullUrl
    /\ UNCHANGED <<trackerVars, memChunk, hooked, fetchWraps, xhrWraps, xhrVars,
                   injections, fcall, comps, initCalls, finished, moduleSet>>

(***************************************************************************)
(* Page world: the Module Locator, lines 353-474.                          *)
(***************************************************************************)
\* lines 353-368 (the value returned; line 358 is in StartComputations)
getOptimizedPawtectUrl(p) ==
    IF localStoragePath # NullUrl THEN localStoragePath
    ELSE IF memChunk[p] # NullUrl THEN memChunk[p]
    ELSE NullUrl

\* A variant of the candidate list that tries the hard-coded paths first.
fallbackFirstCandidates(p) ==
    <<Href(FallbackPath, LocationOrigin(p)), Href(FallbackPath, SiteOrigin)>>
    \o (IF getOptimizedPawtectUrl(p) # NullUrl
        THEN <<getOptimizedPawtectUrl(p)>> ELSE <<>>)

\* A variant of the candidate list without the hard-coded paths.
cachedOnlyCandidates(p) ==
    IF getOptimizedPawtectUrl(p) # NullUrl
    THEN <<getOptimizedPawtectUrl(p)>>
    ELSE <<Href(FallbackPath, SiteOrigin)>>

\* lines 441-446
fastCandidates(p) ==
    (IF getOptimizedPawtectUrl(p) # NullUrl
     THEN <<getOptimizedPawtectUrl(p)>> ELSE <<>>)
    \o <<Href(FallbackPath, LocationOrigin(p)), Href(FallbackPath, SiteOrigin)>>

\* computePawtect up to its first await (line 477 into line 452): the
\* candidates are fixed and the import of the first one is pending.  cached
\* and mem remember what localStorage and the page global held at the call;
\* attempts, scanned and passed record the imports, the candidates fetched
\* by the scan and whether the text of each passed the test of line 416.
NewComp(p) ==
    [pc |-> "fast", page |-> p, cached |-> localStoragePath,
     mem |-> memChunk[p], cands |-> fastCandidates(p), idx |-> 1,
     attempts |-> <<>>, scanned |-> <<>>, passed |-> <<>>]

FreeSlots == {c \in Comps : comps[c].pc = "free"}

\* The k lowest free slots.
Allocate(k) ==
    {c \in FreeSlots : Cardinality({d \in FreeSlots : d < c}) < k}

\* k calls of computePawtect are started in tab p (k = 0: none).
StartComputations(p, k) ==
    /\ Cardinality(FreeSlots) >= k
    /\ comps' = [c \in Comps |->
                   IF c \in Allocate(k) THEN NewComp(p) ELSE comps[c]]
    /\ memChunk' = IF k > 0 /\ localStoragePath # NullUrl
                   THEN [memChunk EXCEPT ![p] = localStoragePath]  \* line 358
                   ELSE memChunk
    /\ finished' = IF k > 0 THEN NoResult ELSE finished

\* lines 449-461: the import of a fast candidate resolves or rejects.
ImportFast(c, ok) ==
    /\ comps[c].pc = "fast"
    /\ LET r == comps[c]
           tried == [r EXCEPT !.attempts = Append(@,
                        [url |-> r.cands[r.idx], ok |-> ok, src |-> "fast"])]
       IN comps' = [comps EXCEPT ![c] =
              IF ok THEN [tried EXCEPT !.pc = "run"]
              ELSE IF r.idx < Len(r.cands) THEN [tried EXCEPT !.idx = @ + 1]
              ELSE IF chunkCandidates(r.page) = <<>> THEN FreeComp
              ELSE [tried EXCEPT !.pc = "scan", !.idx = 1]]
    /\ finished' = IF comps'[c].pc = "free"
                   THEN Unloaded([comps[c] EXCEPT !.attempts = Append(@,
                            [url |-> comps[c].cands[comps[c].idx], ok |-> ok,
                             src |-> "fast"])])
                   ELSE finished
    /\ UNCHANGED <<trackerVars, localStoragePath, memChunk, hooked, fetchWraps,
                   xhrWraps, xhrVars, injections, fcall, initCalls, moduleSet>>

\* What the check of one candidate can give: the fetch fails or is not ok
\* (lines 406-411), the text does not hold the signature, it does and the
\* URL is cached (lines 416-423), it does and localStorage.setItem throws
\* (line 420, caught at line 425).
ScanOutcomes == {"fail", "nomatch", "match", "storefails"}

\* line 416: the text of the candidate holds the signature
SignatureFound(outcome) == outcome \in {"match", "storefails"}

\* lines 404-431: the check of one chunk candidate.
ScanFetch(c, outcome) ==
    /\ comps[c].pc = "scan"
    /\ LET r == comps[c]
           url == chunkCandidates(r.page)[r.idx]
           seen == [r EXCEPT !.scanned = Append(@, url),
                             !.passed = Append(@, SignatureFound(outcome))]
       IN IF outcome = "match"
          THEN /\ localStoragePath' = url
               /\ memChunk' = [memChunk EXCEPT ![r.page] = url]
               /\ comps' = [comps EXCEPT ![c] = [seen EXCEPT !.pc = "disc"]]
          ELSE /\ comps' = [comps EXCEPT ![c] =
                      IF r.idx < Len(chunkCandidates(r.page))
                      THEN [seen EXCEPT !.idx = @ + 1]
                      ELSE FreeComp]
               /\ UNCHANGED <<localStoragePath, memChunk>>
    /\ finished' = IF comps'[c].pc = "free"
                   THEN Unloaded([comps[c] EXCEPT !.scanned = Append(@,
                            chunkCandidates(comps[c].page)[comps[c].idx])])
                   ELSE finished
    /\ UNCHANGED <<trackerVars, hooked, fetchWraps, xhrWraps, xhrVars, injections,
                   fcall, initCalls, moduleSet>>

\* A variant of the failure of the discovered URL that scans again.
RescanAfterFailure(tried) == [tried EXCEPT !.pc = "scan", !.idx = 1]

\* lines 467-473: the import of the discovered URL rejects, importModule
\* returns null and computePawtect ends (line 478).
DiscoveredFailed(tried) == FreeComp

\* lines 463-473: the import of the discovered URL resolves or rejects.
ImportDiscovered(c, ok) ==
    /\ comps[c].pc = "disc"
    /\ LET r == comps[c]
           tried == [r EXCEPT !.attempts = Append(@,
                        [url |-> chunkCandidates(r.page)[r.idx], ok |-> ok,
                         src |-> "discovered"])]
       IN comps' = [comps EXCEPT ![c] =
              IF ok THEN [tried EXCEPT !.pc = "run"]
              ELSE DiscoveredFailed(tried)]
    /\ finished' = IF ok THEN finished
                   ELSE Unloaded([comps[c] EXCEPT !.attempts = Append(@,
                            [url |-> chunkCandidates(comps[c].page)[comps[c].idx],
                             ok |-> FALSE, src |-> "discovered"])])
    /\ UNCHANGED <<trackerVars, localStoragePath, memChunk, hooked, fetchWraps,
                   xhrWraps, xhrVars, injections, fcall, initCalls, moduleSet>>

(***************************************************************************)
(* Page world: the Module Invocation Bridge, lines 476-509.                *)
(* pc of a computation after importModule: run (line 478), init (await of  *)
(* mod._(), line 479), me (await of the fetch of /me, line 481).           *)
(***************************************************************************)
\* Strings are sequences of characters; the characters of the model are an
\* ASCII letter, a two-byte letter, U+FEFF and the replacement character.
Utf8(ch) ==
    CASE ch = "a" -> <<97>>
      [] ch = "e'" -> <<195, 169>>
      [] ch = "U+FEFF" -> <<239, 187, 191>>
      [] ch = "U+FFFD" -> <<239, 191, 189>>

\* enc.encode(str), and the bytes a string of the module denotes
RECURSIVE Utf8Encode(_)
Utf8Encode(str) ==
    IF str = <<>> THEN <<>> ELSE Utf8(Head(str)) \o Utf8Encode(Tail(str))

IsPrefix(pre, b) == Len(pre) <= Len(b) /\ SubSeq(b, 1, Len(pre)) = pre

\* The UTF-8 decoder: a well-formed sequence gives its character, any
\* other byte gives U+FFFD.
RECURSIVE Utf8Decode(_)
Utf8Decode(b) ==
    IF b = <<>> THEN <<>>
    ELSE IF \E ch \in {"a", "e'", "U+FEFF", "U+FFFD"} : IsPrefix(Utf8(ch), b)
    THEN LET ch == CHOOSE x \in {"a", "e'", "U+FEFF", "U+FFFD"} :
                       IsPrefix(Utf8(x), b)
         IN <<ch>> \o Utf8Decode(SubSeq(b, Len(Utf8(ch)) + 1, Len(b)))
    ELSE <<"U+FFFD">> \o Utf8Decode(Tail(b))

\* dec.decode(bytes) with dec = new TextDecoder() (lines 486, 495, 500):
\* UTF-8, not fatal, ignoreBOM false: a leading byte order mark is dropped.
TextDecode(b) ==
    IF IsPrefix(Utf8("U+FEFF"), b)
    THEN Utf8Decode(SubSeq(b, Len(Utf8("U+FEFF")) + 1, Len(b)))
    ELSE Utf8Decode(b)

\* Where the module puts its output in wasm.memory.
OutPtr == 1024

\* The strings the module's computation may give.
OutStrings == {<<>>, <<"a">>, <<"a", "e'">>, <<"U+FEFF", "a">>}

OutShapes == {"pair", "string", "object", "other"}

\* The behaviours of the module chunk that the model follows.
Modules ==
    { m \in [hasInit : BOOLEAN, initOk : BOOLEAN, hasMalloc : BOOLEAN,
             hasCompute : BOOLEAN, shape : OutShapes, out : OutStrings,
             freeThrows : BOOLEAN] :
        /\ (~m.hasInit \/ ~m.initOk \/ ~m.hasMalloc \/ ~m.hasCompute) =>
              /\ m.shape = "pair" /\ m.out = <<"a">> /\ ~m.freeThrows
              /\ Cardinality({f \in {"hasInit", "initOk", "hasMalloc",
                                     "hasCompute"} : ~m[f]}) = 1
        /\ m.shape \in {"string", "other"} => ~m.freeThrows
        /\ m.freeThrows => m.out = <<"a">>
        /\ m.shape = "other" => m.out = <<"a">> }

\* lines 496 and 501: the calls of wasm.__wbindgen_free(ptr, len, 1)
Freed(m) ==
    IF m.shape \in {"pair", "object"}
    THEN <<[ptr |-> OutPtr, len |-> Len(Utf8Encode(m.out)),
            threw |-> m.freeThrows]>>
    ELSE <<>>

\* lines 492-505: the token decoded from the output of the module, by its
\* shape; an exception of the free operation is caught (lines 496, 501).
Decoded(m) ==
    CASE m.shape = "pair" ->
             [token |-> TextDecode(Utf8Encode(m.out)), isNull |-> FALSE]
      [] m.shape = "string" -> [token |-> m.out, isNull |-> FALSE]
      [] m.shape = "object" ->
             [token |-> TextDecode(Utf8Encode(m.out)), isNull |-> FALSE]
      [] m.shape = "other" -> [token |-> <<>>, isNull |-> TRUE]

\* window.postMessage({ type: 'WPLACER_PAWTECT_TOKEN', token, origin }, '*')
Broadcast(decoded, origin) ==
    [type |-> "WPLACER_PAWTECT_TOKEN", token |-> decoded.token,
     isNull |-> decoded.isNull, origin |-> origin]

\* lines 484-508 (and the same lines of seedPawtect and computePawtectForT):
\* the module is used, the token is posted with the origin of the caller.
Computed(by, m, origin) ==
    IF ~m.hasMalloc
    THEN \* line 488: wasm.__wbindgen_malloc is not a function
         Rejected(by, "no allocation export")
    ELSE IF ~m.hasCompute
    THEN \* line 491: wasm.get_pawtected_endpoint_payload is not a function
         Rejected(by, "no computation export")
    ELSE [by |-> by, kind |-> "returned", token |-> Decoded(m).token,
          isNull |-> Decoded(m).isNull, shape |-> m.shape, out |-> m.out,
          freed |-> Freed(m),
          posted |-> <<Broadcast(Decoded(m), origin)>>,
          cause |-> IF m.shape = "other" THEN "shape" ELSE "none",
          attempts |-> <<>>, scanned |-> <<>>]

\* How many calls of mod._() the model follows in one page lifetime.
MaxInits == 2

\* lines 479, 597 and 649: await mod._() is called by every computation.
InitCalled(calls, by) == Append(calls, by)

\* line 478: importModule has returned the module; without the export _
\* computePawtect returns null, else the initializer is called.
BridgeStart(c, m) ==
    /\ comps[c].pc = "run"
    /\ IF ~m.hasInit
       THEN /\ comps' = [comps EXCEPT ![c] = FreeComp]
            /\ finished' = NoInitializer
            /\ UNCHANGED initCalls
       ELSE /\ Len(initCalls[comps[c].page]) < MaxInits
            /\ comps' = [comps EXCEPT ![c] = [@ EXCEPT !.pc = "init"]]
            /\ initCalls' = [initCalls EXCEPT ![comps[c].page] =
                                InitCalled(@, "computePawtect")]
            /\ UNCHANGED finished
    /\ UNCHANGED <<trackerVars, localStoragePath, memChunk, hooked, fetchWraps,
                   xhrWraps, xhrVars, injections, fcall, moduleSet>>

\* line 479: await mod._() resolves with the wasm exports, or rejects.
InitResolves(c, m) ==
    /\ comps[c].pc = "init"
    /\ IF m.initOk
       THEN /\ comps' = [comps EXCEPT ![c] = [@ EXCEPT !.pc = "me"]]
            /\ UNCHANGED finished
       ELSE /\ comps' = [comps EXCEPT ![c] = FreeComp]
            /\ finished' = Rejected("computePawtect", "initializer rejects")
    /\ UNCHANGED <<trackerVars, localStoragePath, memChunk, hooked, fetchWraps,
                   xhrWraps, xhrVars, injections, fcall, initCalls, moduleSet>>

\* lines 480-508: the fetch of /me settles (its result only feeds mod.i),
\* then the module computes and computePawtect returns.
ModuleRuns(c, m) ==
    /\ comps[c].pc = "me"
    /\ comps' = [comps EXCEPT ![c] = FreeComp]
    /\ finished' = Computed("computePawtect", m, "pixel")
    /\ UNCHANGED <<trackerVars, localStoragePath, memChunk, hooked, fetchWraps,
                   xhrWraps, xhrVars, injections, fcall, initCalls, moduleSet>>

(***************************************************************************)
(* Page world: seedPawtect (lines 578-630) and computePawtectForT (lines   *)
(* 631-691).  Each injected function is one async chain that shares only   *)
(* the module with the rest of the page; it is followed as one step.       *)
(***************************************************************************)
\* The injected function of either handler: the import of the cached path
\* or of the fallback chunk resolves or rejects (loaded), the initializer
\* is called, the module computes; every exception is caught (lines 621,
\* 682), and the token is posted with the origin of the handler.
InjectedCompute(p, by, origin, loaded, m) ==
    /\ Len(initCalls[p]) < MaxInits
    /\ IF loaded /\ m.hasInit
       THEN initCalls' = [initCalls EXCEPT ![p] = InitCalled(@, by)]
       ELSE UNCHANGED initCalls
    /\ finished' =
         IF loaded /\ m.hasInit /\ m.initOk /\ m.hasMalloc /\ m.hasCompute
         THEN [Computed(by, m, origin) EXCEPT
                 !.posted = <<Broadcast(
                     IF m.shape = "other"
                     THEN [token |-> <<>>, isNull |-> TRUE]
                     ELSE Decoded(m), origin)>>]
         ELSE [NoResult EXCEPT !.by = by, !.kind = "returned",
                               !.isNull = TRUE, !.cause = "caught"]
    /\ UNCHANGED <<trackerVars, localStoragePath, memChunk, hooked, fetchWraps,
                   xhrWraps, xhrVars, injections, fcall, comps, moduleSet>>

\* line 681: origin: 'simple'
ForTOrigin == "simple"

\* The listener runs the injected function of seedPawtect in tab p.
SeedPawtect(p, loaded, m) ==
    InjectedCompute(p, "seedPawtect", "seed", loaded, m)

\* The listener runs the injected function of computePawtectForT in tab p.
ComputePawtectForT(p, loaded, m) ==
    InjectedCompute(p, "computePawtectForT", ForTOrigin, loaded, m)

(***************************************************************************)
(* Page world: the fetch wrapper, lines 511-534.                           *)
(***************************************************************************)
\* A URL is the sequence of the parts of its href between the slashes.
PixelUrl == <<"https:", "", "backend.wplace.live", "s0", "pixel", "1", "1">>
PixelNoTile == <<"https:", "", "backend.wplace.live", "s0", "pixel">>
MeUrl == <<"https:", "", "backend.wplace.live", "me">>

\* line 517: /\/s0\/pixel\//.test(url)
IsPixelUrl(u) ==
    \E i \in 2..(Len(u) - 2) : u[i] = "s0" /\ u[i + 1] = "pixel"

\* line 516: new Request(input, init) normalizes the method name.
NormalizeMethod(m) ==
    IF m = "post" THEN "POST" ELSE IF m = "get" THEN "GET" ELSE m

\* The calls of window.fetch that the page makes.  ctorThrows: new Request
\* throws for these arguments; body.kind: init.body is a string, another
\* body (Blob, FormData, a stream), or absent; readFails: reading the body
\* of the clone rejects.
FetchInputs ==
    { a \in [ctorThrows : BOOLEAN,
             method : {"GET", "POST", "post"},
             url : {PixelUrl, PixelNoTile, MeUrl},
             body : [kind : {"string", "other", "none"}, text : {"", "b"}],
             readFails : BOOLEAN] :
        /\ a.body.kind = "none" => a.body.text = ""
        /\ a.body.kind = "other" => a.body.text = "b"
        /\ a.method = "post" => (a.url = PixelUrl /\ a.body.kind = "string"
                                 /\ a.body.text = "b")
        /\ a.method = "GET" => a.body.kind = "none"
        /\ a.readFails => a.body.kind = "other"
        /\ a.ctorThrows => (a.method = "POST" /\ a.url = PixelUrl
                            /\ a.body.kind = "other" /\ ~a.readFails)
        /\ a.url # PixelUrl => (a.method = "POST" /\ a.body.kind = "string"
                                /\ a.body.text = "b") }

\* A variant of the wrapper's test that does not look at the method.
LayerActionAnyMethod(a) ==
    IF a.ctorThrows THEN "pass"
    ELSE IF IsPixelUrl(a.url)
         THEN IF a.body.kind = "string" /\ a.body.text # ""
              THEN "compute"
              ELSE "read"
         ELSE "pass"

\* lines 513-532: what one wrapper layer does before it calls the fetch it
\* wraps: nothing ("pass"), computePawtect at once ("compute"), or await
\* clone.text() and computePawtect after it ("read").
LayerAction(a) ==
    IF a.ctorThrows THEN "pass"
    ELSE IF NormalizeMethod(a.method) = "POST" /\ IsPixelUrl(a.url)
         THEN IF a.body.kind = "string" /\ a.body.text # ""
              THEN "compute"
              ELSE "read"
         ELSE "pass"

\* A variant of the forwarding that passes the normalized request on.
ForwardedRequest(a) == [a EXCEPT !.method = NormalizeMethod(a.method)]

\* line 533: originalFetch(...args)
ForwardedArgs(a) == a

\* lines 522 and 528: the arguments of computePawtect
ComputeArgs(a) == [url |-> a.url, bodyStr |-> a.body.text]

\* The page calls window.fetch(...args) in tab p.  Every wrapper layer runs
\* lines 513-532 on the same arguments, then the native fetch is called;
\* with a body that is not a string the outermost layer stops at its await.
FetchCall(p, a) ==
    /\ fcall.pc # "reading"
    /\ LET n == fetchWraps[p]
           act == IF n = 0 THEN "pass" ELSE LayerAction(a)
           k == IF act = "compute" THEN n ELSE 0
       IN /\ StartComputations(p, k)
          /\ fcall' =
               IF act = "read"
               THEN [pc |-> "reading", page |-> p, args |-> a, wraps |-> n,
                     layer |-> n, native |-> <<>>, started |-> <<>>]
               ELSE [pc |-> "done", page |-> p, args |-> a, wraps |-> n,
                     layer |-> 0,
                     native |-> <<ForwardedArgs(a)>>,
                     started |-> [i \in 1..k |-> ComputeArgs(a)]]
    /\ UNCHANGED <<trackerVars, localStoragePath, hooked, fetchWraps, xhrWraps, xhrVars,
                   injections, initCalls, moduleSet>>

\* lines 526-529, 533: clone.text() resolves or rejects in the layer that
\* awaits it; the layer starts the computation if it resolved and calls the
\* fetch it wraps, which is the next layer or the native fetch.
FetchBodyRead ==
    /\ fcall.pc = "reading"
    /\ LET a == fcall.args
           k == IF a.readFails THEN 0 ELSE 1
           begun == IF k = 1 THEN Append(fcall.started, ComputeArgs(a))
                    ELSE fcall.started
       IN /\ StartComputations(fcall.page, k)
          /\ fcall' =
               IF fcall.layer > 1
               THEN [fcall EXCEPT !.layer = @ - 1, !.started = begun]
               ELSE [fcall EXCEPT !.pc = "done", !.layer = 0,
                                  !.started = begun,
                                  !.native = Append(@, ForwardedArgs(a))]
    /\ UNCHANGED <<trackerVars, localStoragePath, hooked, fetchWraps, xhrWraps, xhrVars,
                   injections, initCalls, moduleSet>>

(***************************************************************************)
(* Page world: the XMLHttpRequest wrappers, lines 536-567.                 *)
(***************************************************************************)
\* location.href of the page, up to its last slash.
LocationDir == <<"https:", "", "wplace.live">>
\* A path-relative URL of the placement endpoint, and a string that
\* new URL(url, location.href) rejects.
RelPixel == <<"s0", "pixel", "1", "1">>
BadUrl == <<"https:", "">>

\* line 541: new URL(url, location.href) throws for an invalid URL.
UrlParses(u) == u # BadUrl

\* line 541: new URL(url, location.href).href
ResolveUrl(u) == IF u[1] = "https:" THEN u ELSE LocationDir \o u

\* line 548: (this.__wplacer_method || '').toUpperCase()
UpperCase(m) == IF m = "post" THEN "POST" ELSE IF m = "get" THEN "GET" ELSE m

\* The arguments of open that the page passes.
OpenInputs ==
    { [method |-> "POST", url |-> PixelUrl],
      [method |-> "post", url |-> RelPixel],
      [method |-> "GET", url |-> PixelUrl],
      [method |-> "POST", url |-> MeUrl],
      [method |-> "GET", url |-> BadUrl] }

\* The bodies the page passes to send: a string, an ArrayBuffer, a typed
\* array over the whole of its buffer or over a part of it, a Blob whose
\* read resolves or rejects, another object (FormData), null.  A string is
\* a sequence of characters, a buffer a sequence of bytes; 255 is not
\* well-formed UTF-8.
SendBodies ==
    { [NoBody EXCEPT !.kind = "string", !.text = t] : t \in {<<>>, <<"a">>} }
    \cup { [NoBody EXCEPT !.kind = "buffer", !.bytes = b, !.len = Len(b)] :
              b \in {<<97>>, <<255>>} }
    \cup { [NoBody EXCEPT !.kind = "view", !.bytes = <<97, 97>>,
                          !.off = v[1], !.len = v[2]] :
              v \in {<<0, 2>>, <<1, 1>>} }
    \cup { [NoBody EXCEPT !.kind = "blob", !.text = <<"a">>,
                          !.readFails = f] : f \in BOOLEAN }
    \cup { [NoBody EXCEPT !.kind = "other"], NoBody }

\* The bytes a binary body denotes: those of the buffer, or those of the
\* view between its byteOffset and byteOffset + byteLength.
BodyBytes(b) == SubSeq(b.bytes, b.off + 1, b.off + b.len)

\* lines 551-559: the string handed to maybeCompute for a body that is
\* examined synchronously.  new Uint8Array(body.buffer) covers the whole
\* buffer of a typed array (line 558).
Extracted(b) ==
    IF b.kind = "string" THEN b.text
    ELSE IF b.kind \in {"buffer", "view"} THEN TextDecode(b.bytes)
    ELSE <<>>

\* line 548: the test on the fields the open wrapper left on the object.
Eligible(x) == UpperCase(x.method) = "POST" /\ IsPixelUrl(x.url)

\* lines 547-564: what one layer of the send wrapper does before origSend:
\* computePawtect at once, a read of body.text() left pending, or nothing.
\* maybeCompute (line 550) drops an empty string.
SendAction(x, b) ==
    IF ~Eligible(x) THEN "pass"
    ELSE IF b.kind \in {"string", "buffer", "view"}
         THEN IF Extracted(b) # <<>> THEN "compute" ELSE "pass"
         ELSE IF b.kind = "blob" THEN "read" ELSE "pass"

\* lines 539-545: the page calls open(method, url) on object o.  Each
\* installed layer stores the resolved URL and the method unless the URL
\* does not parse, then calls the open it wraps with the same arguments.
XhrOpen(o, a) ==
    /\ xsend.pc # "reading"
    /\ LET stored == xhrWraps[XhrPage] > 0 /\ UrlParses(a.url)
       IN xhr' = [xhr EXCEPT ![o] =
              [method |-> IF stored THEN a.method ELSE @.method,
               url |-> IF stored THEN ResolveUrl(a.url) ELSE @.url,
               called |-> <<a>>,
               native |-> <<a>>]]
    /\ UNCHANGED <<trackerVars, localStoragePath, memChunk, hooked,
                   fetchWraps, xhrWraps, injections, fcall, comps, initCalls,
                   finished, moduleSet, xsend>>

\* lines 546-566: the page calls send(body) on object o, which has been
\* opened.  origSend is called in the same step: a pending read of the
\* body is not awaited.
XhrSend(o, b) ==
    /\ xhr[o].called # <<>>
    /\ xsend.pc # "reading"
    /\ LET n == xhrWraps[XhrPage]
           act == IF n = 0 THEN "pass" ELSE SendAction(xhr[o], b)
           k == IF act = "compute" THEN n ELSE 0
       IN /\ StartComputations(XhrPage, k)
          /\ xsend' = [pc |-> IF act = "read" THEN "reading" ELSE "done",
                       obj |-> o, body |-> b, method |-> xhr[o].method,
                       url |-> xhr[o].url, wraps |-> n,
                       started |-> [i \in 1..k |->
                           [url |-> xhr[o].url, bodyStr |-> Extracted(b)]],
                       native |-> <<b>>]
    /\ UNCHANGED <<trackerVars, localStoragePath, hooked, fetchWraps,
                   xhrWraps, injections, fcall, initCalls, moduleSet, xhr>>

\* line 562: body.text() resolves and maybeCompute gets the text, or it
\* rejects and the rejection is swallowed.
XhrBodyRead ==
    /\ xsend.pc = "reading"
    /\ LET b == xsend.body
           k == IF b.readFails \/ b.text = <<>> THEN 0 ELSE xsend.wraps
       IN /\ StartComputations(XhrPage, k)
          /\ xsend' = [xsend EXCEPT !.pc = "done",
                          !.started = [i \in 1..k |->
                              [url |-> xsend.url, bodyStr |-> b.text]]]
    /\ UNCHANGED <<trackerVars, localStoragePath, hooked, fetchWraps,
                   xhrWraps, injections, fcall, initCalls, moduleSet, xhr>>

(***************************************************************************)
(* The page world on its own: the background does nothing but inject.      *)
(* The interceptor and the locator are followed up to the loaded chunk,    *)
(* which is not the module here; SpecBridge follows the use of the module. *)
(***************************************************************************)
InitPage ==
    /\ TrackerStart
    /\ AlarmsInitialized
    /\ storage = [autoReload |-> "undefined", autoClear |-> "undefined"]
    /\ openTabs = TabOrder
    /\ activeTab = NoTab
    /\ PagesStart
    /\ moduleSet = {OtherChunk}
    /\ localStoragePath \in {NullUrl} \cup ChunkUrls

NextPage ==
    \/ \E p \in Pages : InjectPawtect(p)
    \/ \E p \in Pages : PageReload(p)
    \/ SiteDataCleared
    \/ \E p \in Pages, a \in FetchInputs : FetchCall(p, a)
    \/ FetchBodyRead
    \/ \E c \in Comps, ok \in BOOLEAN : ImportFast(c, ok)
    \/ \E c \in Comps, o \in ScanOutcomes : ScanFetch(c, o)
    \/ \E c \in Comps, ok \in BOOLEAN : ImportDiscovered(c, ok)
    \/ \E c \in Comps, m \in moduleSet : BridgeStart(c, m)

SpecPage == InitPage /\ [][NextPage]_vars

(***************************************************************************)
(* The Module Invocation Bridge: placement writes, seedPawtect and         *)
(* computePawtectForT in pages whose module chunk may show every behaviour *)
(* of Modules.                                                             *)
(***************************************************************************)
\* fetch(url, { method: 'POST', body: '...' }) of a pixel placement
PixelPost == [ctorThrows |-> FALSE, method |-> "POST", url |-> PixelUrl,
              body |-> [kind |-> "string", text |-> "b"],
              readFails |-> FALSE]

InitBridge ==
    /\ TrackerStart
    /\ AlarmsInitialized
    /\ storage = [autoReload |-> "undefined", autoClear |-> "undefined"]
    /\ openTabs = TabOrder
    /\ activeTab = NoTab
    /\ PagesStart
    /\ moduleSet = Modules
    /\ localStoragePath \in {NullUrl, ChunkX}

\* The tab whose computations are followed.
BridgePages == {TabOrder[1]}

NextBridge ==
    \/ \E p \in BridgePages : InjectPawtect(p)
    \/ \E p \in BridgePages : PageReload(p)
    \/ \E p \in BridgePages : FetchCall(p, PixelPost)
    \/ \E c \in Comps, ok \in BOOLEAN : ImportFast(c, ok)
    \/ \E c \in Comps, o \in ScanOutcomes : ScanFetch(c, o)
    \/ \E c \in Comps, ok \in BOOLEAN : ImportDiscovered(c, ok)
    \/ \E c \in Comps, m \in moduleSet : BridgeStart(c, m)
    \/ \E c \in Comps, m \in moduleSet : InitResolves(c, m)
    \/ \E c \in Comps, m \in moduleSet : ModuleRuns(c, m)
    \/ \E p \in BridgePages, loaded \in BOOLEAN, m \in moduleSet :
           SeedPawtect(p, loaded, m)
    \/ \E p \in BridgePages, loaded \in BOOLEAN, m \in moduleSet :
           ComputePawtectForT(p, loaded, m)

SpecBridge == InitBridge /\ [][NextBridge]_vars

(***************************************************************************)
(* The XMLHttpRequest wrappers of one page, with the token computations    *)
(* they start followed up to the loaded chunk.                             *)
(***************************************************************************)
InitXhr ==
    /\ TrackerStart
    /\ AlarmsInitialized
    /\ storage = [autoReload |-> "undefined", autoClear |-> "undefined"]
    /\ openTabs = TabOrder
    /\ activeTab = NoTab
    /\ PagesStart
    /\ moduleSet = {OtherChunk}
    /\ localStoragePath = ChunkX

NextXhr ==
    \/ InjectPawtect(XhrPage)
    \/ \E o \in XhrObjects, a \in OpenInputs : XhrOpen(o, a)
    \/ \E o \in XhrObjects, b \in SendBodies : XhrSend(o, b)
    \/ XhrBodyRead
    \/ \E c \in Comps, ok \in BOOLEAN : ImportFast(c, ok)
    \/ \E c \in Comps, m \in moduleSet : BridgeStart(c, m)

SpecXhr == InitXhr /\ [][NextXhr]_vars

(***************************************************************************)
(* The cache clear of the overdue tick over two tabs that hold the chunk   *)
(* of an earlier deployment in localStorage, while the first tab computes  *)
(* tokens.  Auto-reload is off, so that every page reload is one of the    *)
(* clear; the clock moves by whole overdue periods.                        *)
(***************************************************************************)
InitClear ==
    /\ TrackerStart
    /\ AlarmsInitialized
    /\ storage = [autoReload |-> "false", autoClear |-> "true"]
    /\ openTabs \in {<<>>, TabOrder}
    /\ activeTab = NoTab
    /\ PagesStart
    /\ moduleSet = {OtherChunk}
    /\ localStoragePath = OldChunk

NextClear ==
    \/ \E d \in LongSteps : d > TOKEN_WAIT_THRESHOLD_MS /\ AdvanceClock(d)
    \/ \E t \in Ticks : AlarmFires(t)
    \/ \E t \in Ticks : TickGetSettings(t)
    \/ \E t \in Ticks : TickGetServerUrl(t)
    \/ \E t \in Ticks, o \in PollOutcomes, d \in BOOLEAN :
           PollResponds(t, o, d)
    \/ \E t \in Ticks, p \in Pages, d \in BOOLEAN, ok \in BOOLEAN :
           ClearTab(t, p, d, ok)
    \/ \E t \in Ticks, d \in BOOLEAN : ClearNoTabs(t, d)
    \/ InjectPawtect(XhrPage)
    \/ FetchCall(XhrPage, PixelPost)
    \/ \E c \in Comps, ok \in BOOLEAN : ImportFast(c, ok)
    \/ \E c \in Comps, o \in ScanOutcomes : ScanFetch(c, o)
    \/ \E c \in Comps, ok \in BOOLEAN : ImportDiscovered(c, ok)
    \/ \E c \in Comps, m \in moduleSet : BridgeStart(c, m)

SpecClear == InitClear /\ [][NextClear]_vars

(***************************************************************************)
(* Properties of the wait tracker, checked under SpecTracker.              *)
(***************************************************************************)
\* A tick reads a poll result needed=true in this step.
ReadsNeeded(t) ==
    /\ tick[t].pc = "fetch"
    /\ pollParity' # pollParity
    /\ lastPoll' = "needed"

\* A tick invokes initiateReload (line 89) in this step.
InvokesReload(t) ==
    tick[t].pc # "reload_query" /\ tick'[t].pc = "reload_query"

\* A tick invokes clearPawtectCache (line 81 or line 94) in this step.
InvokesClear(t) ==
    \/ tick[t].pc # "clear1" /\ tick'[t].pc = "clear1"
    \/ tick[t].pc # "clear2" /\ tick'[t].pc = "clear2"

\* The clearPawtectCache of line 81 resolves in this step (line 82 runs).
OverdueClearResolves(t) ==
    tick[t].pc = "clear1" /\ tick'[t].pc # "clear1"

\* A token or a token pair is received in this step.
TokenArrives == posts' > posts

\* C1: the wait timer is non-null if and only if the most recent successfully
\* read poll result was needed=true and no token has arrived since that poll
\* (when the last read result is needed=true, tokenSinceNeeded says whether
\* a token arrived since that poll).
C1_TimerIffNeededAndNoToken ==
    (tokenWaitStartTime # Null) <=> (lastPoll = "needed" /\ ~tokenSinceNeeded)

\* C2 (as claimed): on a tick that reads needed=true while the timer is set,
\* the overdue clear is invoked if and only if the elapsed time is >= 30000
\* ms and auto-clear is enabled.
C2_OverdueAtThreshold ==
    [][\A t \in Ticks :
         ReadsNeeded(t) /\ Truthy(tokenWaitStartTime) =>
           ((tick'[t].pc = "clear1") <=>
              (now - tokenWaitStartTime >= TOKEN_WAIT_THRESHOLD_MS
               /\ tick[t].autoClear))]_vars

\* C2 (amended): on a tick that reads needed=true while the timer is set,
\* the overdue clear is invoked if and only if the elapsed time is strictly
\* more than 30000 ms and auto-clear was enabled in the settings the tick
\* read (so not at 29999 ms nor at exactly 30000 ms, and at 30001 ms); and
\* when that clear resolves the timer is reset to the current time.
C2_OverduePastThreshold ==
    [][\A t \in Ticks :
         /\ ReadsNeeded(t) /\ Truthy(tokenWaitStartTime) =>
              ((tick'[t].pc = "clear1") <=>
                 (now - tokenWaitStartTime > TOKEN_WAIT_THRESHOLD_MS
                  /\ tick[t].autoClear))
         /\ ReadsNeeded(t) /\ ~Truthy(tokenWaitStartTime) =>
              tick'[t].pc # "clear1"
         /\ OverdueClearResolves(t) => tokenWaitStartTime' = now']_vars

\* C2 witness: the overdue clear has been invoked by a tick that read
\* needed=true 30001 ms after the wait start.
C2_Witness ==
    \E t \in Ticks :
        /\ tick[t].pc = "clear1"
        /\ tick[t].left = Pages
        /\ tokenWaitStartTime # Null
        /\ now - tokenWaitStartTime = TOKEN_WAIT_THRESHOLD_MS + 1

\* C3: with auto-reload and auto-clear enabled, (a) a tick that reads
\* needed=true with no timer sets the timer to the current time and invokes
\* the reload; (b) a tick that reads needed=true 30001 ms after the wait
\* start invokes the cache clear, and the timer is reset to the current time
\* when it resolves; (c) once a token has arrived the timer is null and no
\* reload and no cache clear is invoked until a poll reads needed=true again.
C3_Scenario ==
    [][\A t \in Ticks :
         /\ ( /\ ReadsNeeded(t) /\ ~Truthy(tokenWaitStartTime)
              /\ tick[t].autoReload /\ tick[t].autoClear )
            => tokenWaitStartTime' = now /\ InvokesReload(t)
         /\ ( /\ ReadsNeeded(t) /\ Truthy(tokenWaitStartTime)
              /\ now - tokenWaitStartTime = TOKEN_WAIT_THRESHOLD_MS + 1
              /\ tick[t].autoReload /\ tick[t].autoClear )
            => InvokesClear(t)
         /\ ( /\ OverdueClearResolves(t) /\ ~tokenSinceNeeded )
            => tokenWaitStartTime' = now'
         /\ TokenArrives => tokenWaitStartTime' = Null
         /\ ( tokenSinceNeeded /\ tokenSinceNeeded' )
            => ~InvokesReload(t) /\ ~InvokesClear(t)]_vars

\* C4: when a token is handled while the tick is suspended at an await that
\* follows the read of the poll result (clearPawtectCache, initiateReload),
\* the timer is still null when the tick finishes.
C4_TickKeepsTokenClear ==
    [][\A t \in Ticks :
         ( /\ tick[t].pc \in {"clear1", "reload_query", "reload_send",
                              "reload_fb", "clear2"}
           /\ tokenSinceNeeded
           /\ tick'[t].pc = "idle" )
         => tokenWaitStartTime' = Null]_vars

\* C5: a token (SEND_TOKEN) or a token pair (tokenPairReceived with both
\* tokens) leaves the timer null when the handler returns, whatever the state
\* before; and sending the POST /t, whether it succeeds or fails, does not
\* touch the timer.
C5_TokenClearsTimer ==
    [][/\ TokenArrives => tokenWaitStartTime' = Null
       /\ posts' < posts => tokenWaitStartTime' = tokenWaitStartTime]_vars

\* C5 witness: a token has arrived after a poll read needed=true, and the
\* timer that the poll had set is null while the POST /t is still pending.
C5_Witness ==
    /\ lastPoll = "needed"
    /\ tokenSinceNeeded
    /\ tokenWaitStartTime = Null
    /\ posts > 0
    /\ \A t \in Ticks : tick[t].pc = "idle"

(***************************************************************************)
(* Properties of the page world, checked under SpecPage.                   *)
(***************************************************************************)
\* The method and URL of the request of a call match the wrapper's test.
IsPlacementWrite(a) ==
    NormalizeMethod(a.method) = "POST" /\ IsPixelUrl(a.url)

\* The wrapper can get the body string of the call: a non-empty string
\* init body, or the text of the clone when reading it succeeds.
BodyObtained(a) ==
    \/ a.body.kind = "string" /\ a.body.text # ""
    \/ ~a.readFails

\* The fetch call has returned and was made through installed wrappers.
WrappedCallDone == fcall.pc = "done" /\ fcall.wraps >= 1

\* C6: after the injected function has run any number of times in a page,
\* fetch and XHR open/send are each wrapped exactly once, and a call that
\* matches (and whose body is obtained) starts exactly one computation.
C6_InstalledOnce ==
    /\ \A p \in Pages :
         /\ injections[p] >= 1 =>
              hooked[p] /\ fetchWraps[p] = 1 /\ xhrWraps[p] = 1
         /\ injections[p] = 0 =>
              ~hooked[p] /\ fetchWraps[p] = 0 /\ xhrWraps[p] = 0
    /\ ( /\ WrappedCallDone
         /\ ~fcall.args.ctorThrows
         /\ IsPlacementWrite(fcall.args)
         /\ BodyObtained(fcall.args) )
       => Len(fcall.started) = 1

\* C6 witness: the injected function has run twice in a page and a matching
\* call made in it has started one computation.
C6_Witness ==
    /\ WrappedCallDone
    /\ injections[fcall.page] = 2
    /\ fetchWraps[fcall.page] = 1
    /\ fcall.args.url = PixelUrl
    /\ Len(fcall.started) = 1

\* C7: every call through the fetch wrapper calls the original fetch exactly
\* once, with the arguments of the call, when the wrapper returns, and not
\* before; no step of a token computation changes that, and the call is
\* passed on while the computation it started may still be running.
C7_OriginalCalledOnce ==
    /\ fcall.pc = "done" => fcall.native = <<fcall.args>>
    /\ fcall.pc = "reading" => fcall.native = <<>>

\* C7 witness: a matching call has been passed to the original fetch while
\* the computation it started still waits for its module.
C7_Witness ==
    /\ WrappedCallDone
    /\ fcall.args.method = "post"
    /\ Len(fcall.native) = 1
    /\ Len(fcall.started) = 1
    /\ \E c \in Comps : comps[c].pc = "fast" /\ comps[c].page = fcall.page

\* C8 (as claimed): a call through the wrapper starts a computation if and
\* only if its method is POST and its URL matches the pixel path; then it
\* starts exactly one, with the request URL and the body string.
C8_ComputesIffPlacementWrite ==
    ( WrappedCallDone /\ ~fcall.args.ctorThrows ) =>
        /\ (Len(fcall.started) >= 1) <=> IsPlacementWrite(fcall.args)
        /\ Len(fcall.started) <= 1
        /\ \A i \in 1..Len(fcall.started) :
             fcall.started[i] = [url |-> fcall.args.url,
                                 bodyStr |-> fcall.args.body.text]

\* C8 (amended): a call through the wrapper starts a computation if and only
\* if the Request can be constructed, its method is POST, its URL matches the
\* pixel path and the body string is obtained (a non-empty string init body,
\* or else the text of a clone whose read succeeds); then it starts exactly
\* one, with the request URL and that body string.
C8_ComputesIfBodyObtained ==
    WrappedCallDone =>
        /\ (Len(fcall.started) >= 1) <=>
              ( /\ ~fcall.args.ctorThrows
                /\ IsPlacementWrite(fcall.args)
                /\ BodyObtained(fcall.args) )
        /\ Len(fcall.started) <= 1
        /\ \A i \in 1..Len(fcall.started) :
             fcall.started[i] = [url |-> fcall.args.url,
                                 bodyStr |-> fcall.args.body.text]

\* C8 witness: a POST to the pixel path whose body is not a string has
\* started one computation with the text read from the clone.
C8_Witness ==
    /\ WrappedCallDone
    /\ fcall.args.body.kind = "other"
    /\ fcall.started = <<[url |-> PixelUrl, bodyStr |-> "b"]>>

\* The computations that are locating or using the module.
Locating == {c \in Comps : comps[c].pc # "free"}

\* The discovery scan of computation record r has been run.
ScanRun(r) == r.pc \in {"scan", "disc"} \/ r.scanned # <<>>

\* The import of URL u was tried in r and failed.
FailedImport(r, u) ==
    \E i \in 1..Len(r.attempts) : r.attempts[i].url = u /\ ~r.attempts[i].ok

\* The hard-coded fallback URLs as the page of r resolves them.
FallbackUrls(r) ==
    <<<<LocationOrigin(r.page), FallbackPath>>, <<SiteOrigin, FallbackPath>>>>

\* C9 (as claimed): when a durably cached location is present as a
\* computation starts, the discovery scan is never run in that call,
\* whatever the outcome of loading the cached location.
C9_CachedNeverScans ==
    \A c \in Locating :
        comps[c].cached # NullUrl => ~ScanRun(comps[c])

\* C9 (amended): when a durably cached location is present as a computation
\* starts, the cached location is the first one loaded; if it loads, it is
\* used and the discovery scan is not run; the scan is run only after the
\* cached location and both hard-coded fallback locations failed to load.
C9_CachedFirstScanLast ==
    \A c \in Locating :
        LET r == comps[c] IN
        r.cached # NullUrl =>
            /\ r.attempts # <<>> => r.attempts[1].url = r.cached
            /\ (r.attempts # <<>> /\ r.attempts[1].ok) =>
                   r.pc = "run" /\ Len(r.attempts) = 1 /\ ~ScanRun(r)
            /\ ScanRun(r) =>
                   /\ FailedImport(r, r.cached)
                   /\ \A i \in 1..2 : FailedImport(r, FallbackUrls(r)[i])

\* C9 witness: the cached location loaded at the first attempt and is in
\* use, and nothing was scanned.
C9_Witness ==
    \E c \in Locating :
        /\ comps[c].cached # NullUrl
        /\ comps[c].pc = "run"
        /\ comps[c].attempts = <<[url |-> comps[c].cached, ok |-> TRUE,
                                  src |-> "fast"]>>
        /\ comps[c].scanned = <<>>

\* At most the last attempt of r loaded, and r uses the module it loaded.
FirstSuccessUsed(r) ==
    /\ \A i \in 1..Len(r.attempts) :
         r.attempts[i].ok => i = Len(r.attempts) /\ r.pc = "run"
    /\ r.pc = "run" => r.attempts # <<>> /\ r.attempts[Len(r.attempts)].ok

\* The URLs of all four kinds of source before the scan, in the order of
\* the claim: the cached URL, the in-memory URL (when it is another URL),
\* the fallback URLs.
ExpectedAll(r) ==
    (IF r.cached # NullUrl THEN <<r.cached>> ELSE <<>>)
    \o (IF r.mem # NullUrl /\ r.mem # r.cached THEN <<r.mem>> ELSE <<>>)
    \o FallbackUrls(r)

ExpectedFast(r) ==
    (IF r.cached # NullUrl THEN <<r.cached>>
     ELSE IF r.mem # NullUrl THEN <<r.mem>> ELSE <<>>) \o FallbackUrls(r)

TokenDecoded ==
    /\ finished.by = "computePawtect"
    /\ finished.kind = "returned"
    /\ finished.shape \in {"pair", "string", "object"}

\* C11: an output of any of the three shapes ([ptr,len] pair, native string,
\* object with ptr and len) is decoded to the string it denotes, so that the
\* three shapes of the same output give the identical token; for the pair
\* and the object the free operation is called exactly once, on that ptr and
\* len, and the token is the same when that call throws.
C11_ShapesDecodeAlike ==
    TokenDecoded =>
        /\ ~finished.isNull
        /\ finished.token = finished.out
        /\ IF finished.shape = "string"
           THEN finished.freed = <<>>
           ELSE /\ Len(finished.freed) = 1
                /\ finished.freed[1].ptr = OutPtr
                /\ finished.freed[1].len = Len(Utf8Encode(finished.out))

\* The cases in which computePawtect is to return null.
NullCauses == {"no module", "no initializer", "no allocation export",
               "no computation export", "shape"}

\* C12: computePawtect returns null, and its promise does not reject, when
\* no module could be loaded, when the module lacks the initializer, the
\* allocation export or the computation export, and when the output has an
\* unrecognized shape.
C12_NullNeverThrows ==
    (finished.by = "computePawtect" /\ finished.cause \in NullCauses) =>
        finished.kind = "returned" /\ finished.isNull

\* C13: within one page lifetime the initializer of the module is called by
\* at most one computation.
C13_InitializedOnce ==
    \A p \in Pages :
        Cardinality({i \in 1..Len(initCalls[p]) :
                        initCalls[p][i] = "computePawtect"}) <= 1

\* C14: every token broadcast carries the origin pixel, seed or manual.
C14_OriginMarkers ==
    \A i \in 1..Len(finished.posted) :
        finished.posted[i].origin \in {"pixel", "seed", "manual"}

(***************************************************************************)
(* Properties of the reload and of the notifications, checked under        *)
(* SpecTracker.                                                            *)
(***************************************************************************)
\* The step of tick t in which the catch block of initiateReload reloads a
\* tab.
ForcedRefresh(t) == tick[t].pc = "reload_fb" /\ tick'[t].pc # "reload_fb"

\* C15: when the graceful refresh request fails, the forced refresh is
\* applied to the tab the request was sent to.
C15_FallbackSameContext ==
    [][\A t \in Ticks :
          ForcedRefresh(t) => effects'.reloaded = tick[t].target]_vars

\* The step of tick t in which the tab query of initiateReload resolves.
QueryResolves(t) == tick[t].pc = "reload_query" /\ tick'[t].pc # "reload_query"

\* The none-found status is among the notifications of the step.
NoneFoundReported(notes) ==
    \E i \in 1..Len(notes) :
        /\ notes[i].action = "statusUpdate"
        /\ notes[i].status = "No wplace.live tabs found to reload."

WaitingNotified(notes, waiting) ==
    \E i \in 1..Len(notes) :
        /\ notes[i].action = "tokenStatusChanged"
        /\ notes[i].waiting = waiting

\* The step changes the tracker between IDLE and WAITING.
WaitStateChanges == Truthy(tokenWaitStartTime) # Truthy(tokenWaitStartTime')

\* The step of tick t that resets the timer after the overdue clear.
OverdueReset(t) == tick[t].pc = "clear1" /\ tick'[t].pc # "clear1"

\* C17: every step that changes the tracker between IDLE and WAITING, in
\* the poll tick or in a token message, sends a tokenStatusChanged
\* notification with the new waiting value.  (The reset of the timer after
\* the overdue clear follows the notification of lines 73-77 of the same
\* tick and is not asked for a notification of its own here.)
C17_TransitionsNotified ==
    [][WaitStateChanges =>
          WaitingNotified(effects'.notes, Truthy(tokenWaitStartTime'))]_vars

\* What the tick does after the answer needed=true: the overdue clear, the
\* reload, or nothing more.
AfterNeeded(t) ==
    IF /\ Truthy(tokenWaitStartTime)
       /\ now - tokenWaitStartTime > TOKEN_WAIT_THRESHOLD_MS
       /\ tick[t].autoClear
    THEN "clear1"
    ELSE IF tick[t].autoReload THEN "reload_query" ELSE "idle"

\* C18: a notification that is not delivered changes nothing in the tick:
\* after the answer needed=true the timer is set and the tick goes on to the
\* clear or the reload that the settings and the elapsed time prescribe,
\* and a step of the reload that sends a status returns to the tick, whether
\* or not the notifications of the step are delivered.
C18_UndeliveredNeverBlocks ==
    [][\A t \in Ticks :
          /\ (tick[t].pc = "fetch" /\ effects'.poll = "needed") =>
                /\ tick'[t].pc = AfterNeeded(t)
                /\ Truthy(tokenWaitStartTime')
                /\ Len(effects'.notes) =
                      IF AfterNeeded(t) = "reload_query" THEN 2 ELSE 1
          /\ (tick[t].pc = "fetch" /\ effects'.poll = "notneeded") =>
                /\ tick'[t].pc = "idle"
                /\ tokenWaitStartTime' = Null
          /\ OverdueReset(t) =>
                /\ tick'[t].pc =
                      IF tick[t].autoReload THEN "reload_query" ELSE "idle"
                /\ tokenWaitStartTime' = now
          /\ ( /\ tick[t].pc \in {"reload_query", "reload_send", "reload_fb"}
               /\ effects'.notes # <<>> ) =>
                /\ tick'[t].pc \in {"idle", "clear2"}
                /\ tokenWaitStartTime' = tokenWaitStartTime]_vars

\* The notifications after needed=true were not delivered and the tick has
\* gone on to the reload.
C18_Witness ==
    /\ effects.poll = "needed"
    /\ Len(effects.notes) = 2
    /\ \A i \in 1..2 : ~effects.notes[i].delivered
    /\ \E t \in Ticks : tick[t].pc = "reload_query"
    /\ Truthy(tokenWaitStartTime)

\* The step of tick t in which initiateReload returns to the tick.
ReloadReturns(t) ==
    /\ tick[t].pc \in {"reload_query", "reload_send", "reload_fb"}
    /\ tick'[t].pc \in {"idle", "clear2"}

\* More than half the threshold has elapsed since the wait began.
HalfThresholdElapsed ==
    /\ Truthy(tokenWaitStartTime)
    /\ 2 * (now - tokenWaitStartTime) > TOKEN_WAIT_THRESHOLD_MS

\* C19: in a tick that reads needed=true the reload is invoked if and only
\* if auto-reload is enabled, and after the reload the cache is cleared if
\* and only if auto-reload and auto-clear are enabled and more than 15000 ms
\* have elapsed since the wait began.
C19_ReloadAndClearConditions ==
    [][\A t \in Ticks :
          /\ ( /\ tick[t].pc = "fetch"
               /\ effects'.poll = "needed"
               /\ tick'[t].pc # "clear1" ) =>
                (tick'[t].pc = "reload_query" <=> tick[t].autoReload)
          /\ OverdueReset(t) =>
                (tick'[t].pc = "reload_query" <=> tick[t].autoReload)
          /\ ReloadReturns(t) =>
                (tick'[t].pc = "clear2" <=>
                    /\ tick[t].autoReload
                    /\ tick[t].autoClear
                    /\ HalfThresholdElapsed)]_vars

\* C20: a poll that fails with a network exception or a non-OK status is
\* skipped: the timer keeps its value, nothing is notified, reloaded or
\* cleared, and the tick ends so that the next alarm polls again.
C20_FailedPollSkipped ==
    [][\A t \in Ticks :
          (tick[t].pc = "fetch" /\ effects'.poll \in {"neterror", "notok"}) =>
             /\ tokenWaitStartTime' = tokenWaitStartTime
             /\ tick'[t] = IdleTick
             /\ effects'.notes = <<>>
             /\ effects'.sentTo = NoTab
             /\ effects'.reloaded = NoTab
             /\ localStoragePath' = localStoragePath]_vars

\* A poll has failed while a wait was in progress and the tick has ended.
C20_Witness ==
    /\ effects.poll \in {"neterror", "notok"}
    /\ Truthy(tokenWaitStartTime)
    /\ \A t \in Ticks : tick[t] = IdleTick

\* C26: when the timer is null as initiateReload returns to the tick (a
\* token arrived during the reload), the tick does not clear the cache.
C26_NoClearAfterToken ==
    [][\A t \in Ticks :
          (ReloadReturns(t) /\ tokenWaitStartTime = Null) =>
             tick'[t].pc # "clear2"]_vars

\* Tick t has read its settings, and auto-reload is disabled in them.
ReloadDisabled(t) ==
    tick[t].pc \notin {"idle", "settings"} /\ ~tick[t].autoReload

\* C29 as stated: with auto-reload disabled no step of a tick refreshes a
\* tab, by a reload request or by chrome.tabs.reload.
C29_NoRefreshWithoutAutoReload ==
    [][\A t \in Ticks :
          ReloadDisabled(t) =>
             effects'.sentTo = NoTab /\ effects'.reloaded = NoTab]_vars

\* C29: with auto-reload disabled a tick never runs initiateReload, sends
\* no reload request and does not run the clear after the reload; it
\* refreshes a tab only in the overdue clear, with auto-clear enabled.
C29_RefreshOnlyByOverdueClear ==
    [][\A t \in Ticks :
          ReloadDisabled(t) =>
             /\ tick'[t].pc \notin {"reload_query", "reload_send",
                                    "reload_fb", "clear2"}
             /\ effects'.sentTo = NoTab
             /\ effects'.reloaded # NoTab =>
                   tick[t].pc = "clear1" /\ tick[t].autoClear]_vars

\* The overdue clear of a tick without auto-reload has refreshed a tab.
C29_Witness ==
    \E t \in Ticks :
        /\ tick[t].pc = "clear1"
        /\ ~tick[t].autoReload
        /\ effects.reloaded # NoTab

(***************************************************************************)
(* Properties of the discovery scan and of the bound on the attempts of    *)
(* one computation, checked under SpecPage.                                *)
(***************************************************************************)
\* The candidates that computation r has fetched are the first ones of the
\* enumeration, in its order.
ScannedInOrder(r) ==
    /\ Len(r.scanned) <= Len(chunkCandidates(r.page))
    /\ r.scanned = SubSeq(chunkCandidates(r.page), 1, Len(r.scanned))

\* No candidate that r fetched before the last one passed the signature
\* check.
NoEarlierMatch(r) == \A i \in 1..(Len(r.passed) - 1) : ~r.passed[i]

\* The page of computation c is not torn down in the step.
StaysLoaded(c) == hooked'[comps[c].page]

\* C21: the scan fetches the candidates in enumeration order; it returns
\* the first one whose text passes the signature check, after writing it to
\* localStorage and to the page global, and fetches nothing after it; when
\* it returns nothing, no candidate it fetched passed the check.
C21_FirstMatchReturned ==
    [][\A c \in Comps :
          /\ comps'[c].pc # "free" => ScannedInOrder(comps'[c])
          /\ (comps[c].pc = "scan" /\ comps'[c].pc = "disc") =>
                /\ comps'[c].passed[Len(comps'[c].passed)]
                /\ NoEarlierMatch(comps'[c])
                /\ localStoragePath' = comps'[c].scanned[Len(comps'[c].scanned)]
                /\ memChunk'[comps[c].page] = localStoragePath'
          /\ (comps[c].pc = "scan" /\ comps'[c].pc = "scan") =>
                \A i \in 1..Len(comps'[c].passed) : ~comps'[c].passed[i]
          /\ (comps[c].pc \in {"disc", "run", "init", "me"}
                 /\ comps'[c].pc # "free") =>
                comps'[c].scanned = comps[c].scanned]_vars

\* The imports of r that followed the scan.
DiscoveredImports(attempts) ==
    {i \in 1..Len(attempts) : attempts[i].src = "discovered"}

\* C22: one computation imports at most the fast candidates and one
\* discovered URL, scans at most once (each candidate fetched at most once)
\* and never goes back to an earlier phase; when the scan finds nothing or
\* the discovered URL does not load it returns null at once.
C22_BoundedAttempts ==
    [][\A c \in Comps :
          /\ Len(comps'[c].attempts) <= Len(comps'[c].cands) + 1
          /\ Cardinality(DiscoveredImports(comps'[c].attempts)) <= 1
          /\ Len(comps'[c].scanned) <= Len(chunkCandidates(comps'[c].page))
          /\ comps[c].pc = "scan" => comps'[c].pc \in {"scan", "disc", "free"}
          /\ comps[c].pc = "disc" => comps'[c].pc \in {"disc", "run", "free"}
          /\ comps[c].pc \in {"run", "init", "me"} =>
                comps'[c].pc \in {"run", "init", "me", "free"}
          /\ ( /\ comps[c].pc \in {"scan", "disc"}
               /\ comps'[c].pc = "free"
               /\ StaysLoaded(c) ) =>
                /\ finished'.kind = "returned"
                /\ finished'.isNull
                /\ finished'.posted = <<>>
                /\ Cardinality(DiscoveredImports(finished'.attempts)) <= 1
                /\ Len(finished'.scanned) <=
                      Len(chunkCandidates(comps[c].page))]_vars

\* A computation has returned null after the scan found a chunk that then
\* failed to load.
C22_Witness ==
    /\ finished.by = "computePawtect"
    /\ finished.cause = "no module"
    /\ finished.scanned # <<>>
    /\ Cardinality(DiscoveredImports(finished.attempts)) = 1
    /\ \A c \in Comps : comps[c].pc = "free"

(***************************************************************************)
(* Property of the status query, checked under SpecStatus.                 *)
(***************************************************************************)
\* The step answers a getTokenStatus request.
StatusAnswered == effects'.reply.sent

\* C27: the answer to getTokenStatus leaves the timer as it is; it reports
\* waiting=true exactly when the timer is non-null, then with the whole
\* seconds elapsed since the timer value, and waiting=false with waitTime 0
\* otherwise.
C27_StatusReadOnlyAndConsistent ==
    [][StatusAnswered =>
          /\ tokenWaitStartTime' = tokenWaitStartTime
          /\ tick' = tick
          /\ effects'.reply.waiting <=> tokenWaitStartTime # Null
          /\ effects'.reply.waitTime =
                IF tokenWaitStartTime # Null
                THEN (now - tokenWaitStartTime) \div 1000
                ELSE 0]_vars

\* The status was asked 29 whole seconds into a wait (29999 ms).
C27_Witness ==
    /\ effects.reply.sent
    /\ effects.reply.waiting
    /\ effects.reply.waitTime = 29
    /\ now - tokenWaitStartTime = 29999

\* The step of tick t that takes the overdue branch of line 79.
OverdueFires(t) == tick[t].pc = "fetch" /\ tick'[t].pc = "clear1"

\* C24: in a tick that takes the overdue branch the clear completes first
\* (every matching tab processed, no reload request sent meanwhile), then
\* the timer is set to the current time, then the reload starts if and only
\* if auto-reload is enabled; and the overdue branch is taken again only
\* when more than 30000 ms have elapsed since that reset.
C24_OverdueOrder ==
    [][\A t \in Ticks :
          /\ OverdueFires(t) =>
                /\ tokenWaitStartTime' = tokenWaitStartTime
                /\ tick'[t].target = NoTab
                /\ effects'.sentTo = NoTab
                /\ lastReset # Null =>
                       now - lastReset > TOKEN_WAIT_THRESHOLD_MS
          /\ ( /\ tick[t].pc = "clear1"
               /\ tick'[t].pc = "clear1"
               /\ tick'[t] # tick[t] ) =>
                /\ tokenWaitStartTime' = tokenWaitStartTime
                /\ lastReset' = lastReset
                /\ effects'.sentTo = NoTab
          /\ OverdueReset(t) =>
                /\ Cardinality(tick[t].left) <= 1
                /\ tokenWaitStartTime' = now
                /\ lastReset' = now
                /\ effects'.sentTo = NoTab
                /\ tick'[t].target = NoTab
                /\ tick'[t].pc = "reload_query" <=> tick[t].autoReload
                /\ ~tick[t].autoReload => tick'[t].pc = "idle"]_vars

\* A tick is in its overdue clear for the second time since the worker
\* started, more than 30000 ms after the previous reset.
C24_Witness ==
    /\ \E t \in Ticks : tick[t].pc = "clear1"
    /\ lastReset # Null
    /\ now - lastReset > TOKEN_WAIT_THRESHOLD_MS

\* C25: a tick that reads needed=true more than 30000 ms into a wait with
\* auto-clear enabled invokes the clear; no tick invokes it more than
\* twice; and a tick invokes it a second time after its overdue clear only
\* when more than 15000 ms elapse between the reset of the timer and the
\* end of the reload.
C25_ClearsPerTick ==
    [][\A t \in Ticks :
          /\ ( /\ tick[t].pc = "fetch"
               /\ effects'.poll = "needed"
               /\ tick[t].autoClear
               /\ Truthy(tokenWaitStartTime)
               /\ now - tokenWaitStartTime > TOKEN_WAIT_THRESHOLD_MS ) =>
                (tick'[t].pc = "clear1" /\ tick'[t].clears = 1)
          /\ tick'[t].clears <= 2
          /\ ( /\ ReloadReturns(t)
               /\ tick[t].clears = 1
               /\ tick'[t].pc = "clear2" ) =>
                2 * (now - lastReset) > TOKEN_WAIT_THRESHOLD_MS]_vars

\* C30: every firing of the poll alarm invokes pollForTokenRequest exactly
\* once, whatever startup and installed events this execution of the
\* background script has received.
C30_OnePollPerFiring ==
    fired.name = POLL_ALARM_NAME => fired.polls = 1

\* The text a body of send carries.
BodyText(b) ==
    IF b.kind \in {"string", "blob"} THEN b.text ELSE TextDecode(BodyBytes(b))

\* The latest send was made through the wrapper on an object whose
\* remembered method and URL are POST and a placement-write URL.
WatchedSend ==
    /\ xsend.pc = "done"
    /\ xsend.wraps = 1
    /\ UpperCase(xsend.method) = "POST"
    /\ IsPixelUrl(xsend.url)

\* C23: a send starts a computation only when the method and URL that open
\* left on the object are POST and a placement-write URL; a string body, a
\* binary body and a lazily read body whose read resolved are each handed
\* to exactly one computation, with the remembered URL and the text of the
\* body; and origOpen and origSend receive every call exactly once with
\* the arguments the page passed.
C23_XhrForwarding ==
    /\ xsend.started # <<>> =>
           (UpperCase(xsend.method) = "POST" /\ IsPixelUrl(xsend.url))
    /\ ( /\ WatchedSend
         /\ \/ xsend.body.kind \in {"string", "buffer", "view"}
            \/ xsend.body.kind = "blob" /\ ~xsend.body.readFails ) =>
           xsend.started = <<[url |-> xsend.url,
                              bodyStr |-> BodyText(xsend.body)]>>
    /\ \A o \in XhrObjects : xhr[o].native = xhr[o].called
    /\ xsend.pc # "none" => xsend.native = <<xsend.body>>

\* A step of the clearPawtectCache that tick t awaits.
ClearStep(t) == tick[t].pc \in {"clear1", "clear2"} /\ tick'[t] # tick[t]

\* C28: clearPawtectCache removes the cached path from localStorage and
\* from the page global in every open wplace.live tab and reloads each of
\* them; its promise resolves exactly once, with true after the last tab
\* has been processed and with false at once when no tab is open; and when
\* it has resolved, getOptimizedPawtectUrl returns the path cached before
\* the clear in no tab.
C28_ClearRemovesAndResolves ==
    [][\A t \in Ticks : ClearStep(t) =>
          /\ tick[t].left = {} =>
                (effects'.cleared = "false" /\ effects'.reloaded = NoTab)
          /\ tick[t].left # {} =>
                /\ effects'.reloaded \in tick[t].left
                /\ localStoragePath' = NullUrl
                /\ memChunk'[effects'.reloaded] = NullUrl
                /\ effects'.cleared =
                      IF tick[t].left = {effects'.reloaded}
                      THEN "true" ELSE "none"
                /\ (tick'[t].pc # tick[t].pc) <=> effects'.cleared = "true"
                /\ effects'.cleared = "true" =>
                      \A p \in Pages : getOptimizedPawtectUrl(p)' # OldChunk
      ]_vars

\* The listener handles the tokenPairReceived message r in this step.
PairStep(r) == r.action = "tokenPairReceived" /\ OnTokenMessage(r)

\* The message lacks the turnstile token or the pawtect token.
LacksToken(r) == ~(r.turnstile /\ r.pawtect)

====
